---- MODULE Spec2Model ----
(***************************************************************************)
(* A model of IMA 0.8.0 (src/ima.js): the live tag function, the two       *)
(* reactive registries, the per-frame update loop, the cleanup pass and    *)
(* the static HTML generator.                                              *)
(*                                                                         *)
(* JavaScript values are records [t, v]: t is the type tag and v a string  *)
(* that identifies the value inside its type.  DOM nodes are records       *)
(* [k, h, n, s]: k is the node kind, (h, n) its identity and s its text.   *)
(***************************************************************************)
EXTENDS Integers, Sequences, FiniteSets, TLC

\* ------------------------------------------------------------------------
\* JavaScript values

TRUE_V  == [t |-> "bool",  v |-> "T"]
FALSE_V == [t |-> "bool",  v |-> "F"]
NULL_V  == [t |-> "null",  v |-> "-"]
UNDEF_V == [t |-> "undef", v |-> "-"]
Num(d)  == [t |-> "num",   v |-> d]
Str(s)  == [t |-> "str",   v |-> s]
NodeV(e) == [t |-> "node", v |-> e]
\* The outcome of a producer call that raises instead of returning.
THROWS  == [t |-> "throw", v |-> "-"]

\* String(x) of JavaScript, on the values above (a number's v is its decimal form).
String(x) ==
    CASE x.t = "bool"  -> (IF x.v = "T" THEN "true" ELSE "false")
      [] x.t = "null"  -> "null"
      [] x.t = "undef" -> "undefined"
      [] x.t = "num"   -> x.v
      [] x.t = "str"   -> x.v
      [] OTHER         -> "[object HTMLElement]"

\* ToBoolean(x): the values `x || ""` replaces by "".
Falsy(x) ==
    \/ x = FALSE_V
    \/ x.t \in {"null", "undef"}
    \/ x = Num("0")
    \/ x = Str("")

\* String(x || "") as written at src/ima.js:381, 399 and 524.
TextOf(x) == IF Falsy(x) THEN "" ELSE String(x)

\* ------------------------------------------------------------------------
\* DOM nodes

\* The elements built by the tag function (the hosts of bindings).
Hosts == {"h1", "h2"}
\* The order in which user code builds them (they are interchangeable).
HostOrder == [h \in Hosts |-> IF h = "h1" THEN 1 ELSE 2]
\* Elements made by user code, which node producers return.
UserElems == {"e1", "e2", "e3"}

outerHTML(e) == IF e \in {"e1", "e2"} THEN "<b></b>" ELSE "<i></i>"

\* Node records are [k, h, n, g, s]: kind, identity (h, n, g) and text.
Marker(h, n)         == [k |-> "marker", h |-> h, n |-> n, g |-> 0, s |-> ""]
TextNode(h, n, g, s) == [k |-> "text", h |-> h, n |-> n, g |-> g, s |-> s]
ElemNode(e)          == [k |-> "elem", h |-> e, n |-> 0, g |-> 0, s |-> ""]
\* null and undefined (an array hole) in an array of nodes, elements, names or callbacks
NULL_REF   == [k |-> "null", h |-> "-", n |-> 0, g |-> 0, s |-> ""]
UNDEF_REF  == [k |-> "undefined", h |-> "-", n |-> 0, g |-> 0, s |-> ""]
HostRef(h) == [k |-> "host", h |-> h, n |-> 0, g |-> 0, s |-> ""]
NameRef(a) == [k |-> "name", h |-> "-", n |-> 0, g |-> 0, s |-> a]
\* The callback of binding n of host h (n = 0: its attribute producer,
\* n >= 1: the producer that is its n-th reactive child).
Callback(h, n) == [k |-> "fn", h |-> h, n |-> n, g |-> 0, s |-> ""]

\* !x for a reference
IsNil(r) == r.k \in {"null", "undefined"}

\* An attribute of an element: absent, or present with a string value.
ABSENT == [has |-> FALSE, val |-> ""]
Present(s) == [has |-> TRUE, val |-> s]

\* ------------------------------------------------------------------------
\* Bounds of the model

\* The reactive attribute every host may carry.
AttrName == "a"
\* Reactive children of one element.
MaxKids == 2
\* Slots of each registry array the model represents.
AttrCap == Cardinality(Hosts)
NodeCap == Cardinality(Hosts) * MaxKids

\* What attribute producers return
AttrVals == {TRUE_V, FALSE_V, NULL_V, UNDEF_V, Str("1")}
\* The primitives and the nodes node producers return
PrimVals == {Num("0"), Num("1"), Str("1")}
\* A producer that was never called has returned nothing
NEVER == [t |-> "never", v |-> "-"]

\* ------------------------------------------------------------------------
\* State

VARIABLES
    \* the DOM: el[h] = [built, connected, attr, kids]
    el,
    \* src/ima.js:271-277
    reactive_markers, reactive_callbacks, reactive_prev_values, reactive_node_count,
    \* src/ima.js:281-289
    reactive_attr_elements, reactive_attr_names, reactive_attr_callbacks,
    reactive_attr_prev_values, reactive_attr_count,
    \* src/ima.js:294
    cleanup_counter,
    \* frame callbacks requestAnimationFrame holds for the next frame
    raf_pending,
    \* what the last handler did (its producer calls and DOM writes)
    last,
    \* what each producer returned when it was last called
    latest,
    \* the frames run since the page loaded, where a specification counts them
    frames,
    \* a tag function call given to both generators, and what they returned
    call, rendered

vars == <<el, reactive_markers, reactive_callbacks, reactive_prev_values,
          reactive_node_count, reactive_attr_elements, reactive_attr_names,
          reactive_attr_callbacks, reactive_attr_prev_values, reactive_attr_count,
          cleanup_counter, raf_pending, last, latest, frames, call, rendered>>

\* ------------------------------------------------------------------------
\* DOM operations on E, a value of el

Range(q) == {q[i] : i \in 1..Len(q)}

RECURSIVE Without(_, _)
\* q without the node x
Without(q, x) ==
    IF q = <<>> THEN <<>>
    ELSE IF Head(q) = x THEN Without(Tail(q), x)
    ELSE <<Head(q)>> \o Without(Tail(q), x)

RECURSIVE Swap(_, _, _)
\* q with cur replaced by new, new removed from anywhere else
Swap(q, cur, new) ==
    IF q = <<>> THEN <<>>
    ELSE IF Head(q) = cur THEN <<new>> \o Swap(Tail(q), cur, new)
    ELSE IF Head(q) = new THEN Swap(Tail(q), cur, new)
    ELSE <<Head(q)>> \o Swap(Tail(q), cur, new)

IndexOf(q, x) == CHOOSE i \in 1..Len(q) : q[i] = x

\* node.parentNode: the host whose child list holds x, "-" when detached
parentNode(E, x) ==
    IF \E h \in Hosts : x \in Range(E[h].kids)
    THEN CHOOSE h \in Hosts : x \in Range(E[h].kids)
    ELSE "-"

\* node.isConnected for a child node
isConnected(E, x) ==
    \E h \in Hosts : E[h].connected /\ x \in Range(E[h].kids)

\* hostConnected for a loop that takes every registered element as connected
hostConnectedAlways(E, r) == r.k = "host"

\* element.isConnected for a host reference
hostConnected(E, r) == r.k = "host" /\ E[r.h].connected

\* node.previousSibling (NULL_REF when x is the first child)
previousSibling(E, x) ==
    LET q == E[parentNode(E, x)].kids
        i == IndexOf(q, x)
    IN IF i = 1 THEN NULL_REF ELSE q[i - 1]

\* parent.appendChild(x): x leaves its old place and becomes the last child of h
appendChild(E, h, x) ==
    LET D == [g \in Hosts |-> [E[g] EXCEPT !.kids = Without(@, x)]]
    IN [D EXCEPT ![h].kids = Append(@, x)]

\* cur.replaceWith(new): nothing when cur has no parent; otherwise new leaves
\* its old place and takes the place of cur
replaceWith(E, cur, new) ==
    LET p == parentNode(E, cur)
    IN IF p = "-" THEN E
       ELSE IF cur = new THEN E
       ELSE [g \in Hosts |->
               [E[g] EXCEPT !.kids = IF g = p THEN Swap(@, cur, new) ELSE Without(@, new)]]

\* every node attached somewhere
Attached(E) == UNION {Range(E[h].kids) : h \in Hosts}

\* doc.createTextNode(s) called by the frame loop for the binding of marker
\* (h, n): a new node, told from the binding's initial text node (g = 0) by
\* g = 1 and from the text node it replaces by its text
createTextNode(h, n, s) == TextNode(h, n, 1, s)

\* ------------------------------------------------------------------------
\* The machine state M the handlers work on: the DOM, the registries and the
\* record of the handler's producer calls.

Cur ==
    [el |-> el,
     rm |-> reactive_markers, rc |-> reactive_callbacks,
     rp |-> reactive_prev_values, nc |-> reactive_node_count,
     ae |-> reactive_attr_elements, an |-> reactive_attr_names,
     ac |-> reactive_attr_callbacks, ap |-> reactive_attr_prev_values,
     acnt |-> reactive_attr_count,
     cc |-> cleanup_counter,
     threw |-> FALSE, swept |-> FALSE, acalls |-> <<>>, ncalls |-> <<>>]

\* One producer call: the slot, the callback, what it returned (or THROWS)
\* and whether the DOM was written for it.
Call(i, cb, out, wrote) == [i |-> i, cb |-> cb, out |-> out, wrote |-> wrote]

\* element.setAttribute(AttrName, s) / element.removeAttribute(AttrName)
setAttribute(E, h, s) == [E EXCEPT ![h].attr = Present(s)]
removeAttribute(E, h) == [E EXCEPT ![h].attr = ABSENT]

\* InitialAttr with false taken as no attribute
InitialAttrOmittingFalse(E, h, v) ==
    IF v = TRUE_V THEN setAttribute(E, h, "true")
    ELSE IF v # FALSE_V /\ v # NULL_V /\ v # UNDEF_V THEN setAttribute(E, h, String(v))
    ELSE E

\* The initial write of an attribute value (src/ima.js:555-561, 232-238):
\* null and undefined write nothing.
InitialAttr(E, h, v) ==
    IF v = TRUE_V THEN setAttribute(E, h, "true")
    ELSE IF v = FALSE_V THEN setAttribute(E, h, "false")
    ELSE IF v # NULL_V /\ v # UNDEF_V THEN setAttribute(E, h, String(v))
    ELSE E

\* PatchAttr with false taken as the removal of a boolean attribute
PatchAttrBooleanPresence(E, h, v) ==
    IF v = TRUE_V THEN setAttribute(E, h, "true")
    ELSE IF v = FALSE_V \/ v = NULL_V \/ v = UNDEF_V THEN removeAttribute(E, h)
    ELSE setAttribute(E, h, String(v))

\* The write of a changed attribute value by the frame loop (src/ima.js:333-341).
PatchAttr(E, h, v) ==
    IF v = TRUE_V THEN setAttribute(E, h, "true")
    ELSE IF v = FALSE_V THEN setAttribute(E, h, "false")
    ELSE IF v = NULL_V \/ v = UNDEF_V THEN removeAttribute(E, h)
    ELSE setAttribute(E, h, String(v))

\* setupReactiveAttr(element, attr_name, callback), the callback returning out
\* setupReactiveAttr taking its slot only once the producer has returned
setupReactiveAttrCountingAfterCall(M, h, out) ==
    LET attr_index == M.acnt
        cb == Callback(h, 0)
        M1 == [M EXCEPT !.acnt = @ + 1]
    IN IF out = THROWS
       THEN [M EXCEPT !.threw = TRUE,
                      !.acalls = Append(@, Call(attr_index, cb, out, FALSE))]
       ELSE [M1 EXCEPT !.el = InitialAttr(@, h, out),
                       !.ae[attr_index] = HostRef(h),
                       !.an[attr_index] = NameRef(AttrName),
                       !.ac[attr_index] = cb,
                       !.ap[attr_index] = out,
                       !.acalls = Append(@, Call(attr_index, cb, out,
                                                 out # NULL_V /\ out # UNDEF_V))]

setupReactiveAttr(M, h, out) ==
    LET attr_index == M.acnt
        cb == Callback(h, 0)
        M1 == [M EXCEPT !.acnt = @ + 1]
    IN IF out = THROWS
       THEN [M1 EXCEPT !.threw = TRUE,
                       !.acalls = Append(@, Call(attr_index, cb, out, FALSE))]
       ELSE [M1 EXCEPT !.el = InitialAttr(@, h, out),
                       !.ae[attr_index] = HostRef(h),
                       !.an[attr_index] = NameRef(AttrName),
                       !.ac[attr_index] = cb,
                       !.ap[attr_index] = out,
                       !.acalls = Append(@, Call(attr_index, cb, out,
                                                 out # NULL_V /\ out # UNDEF_V))]

\* setupReactiveNode with the marker put before the initial node
setupReactiveNodeMarkerFirst(M, h, n, out) ==
    LET node_index == M.nc
        cb == Callback(h, n)
        marker == Marker(h, n)
        M1 == [M EXCEPT !.nc = @ + 1]
        initial_node == IF out.t = "node" THEN ElemNode(out.v)
                        ELSE TextNode(h, n, 0, TextOf(out))
    IN IF out = THROWS
       THEN [M1 EXCEPT !.threw = TRUE,
                       !.ncalls = Append(@, Call(node_index, cb, out, FALSE))]
       ELSE [M1 EXCEPT !.el = appendChild(appendChild(@, h, marker), h, initial_node),
                       !.rm[node_index] = marker,
                       !.rc[node_index] = cb,
                       !.rp[node_index] = initial_node,
                       !.ncalls = Append(@, Call(node_index, cb, out, TRUE))]

\* setupReactiveNode(callback, doc) followed by element.appendChild(fragment)
\* (src/ima.js:253-254), for the n-th reactive child of h returning out
setupReactiveNode(M, h, n, out) ==
    LET node_index == M.nc
        cb == Callback(h, n)
        marker == Marker(h, n)
        M1 == [M EXCEPT !.nc = @ + 1]
        initial_node == IF out.t = "node" THEN ElemNode(out.v)
                        ELSE TextNode(h, n, 0, TextOf(out))
    IN IF out = THROWS
       THEN [M1 EXCEPT !.threw = TRUE,
                       !.ncalls = Append(@, Call(node_index, cb, out, FALSE))]
       ELSE [M1 EXCEPT !.el = appendChild(appendChild(@, h, initial_node), h, marker),
                       !.rm[node_index] = marker,
                       !.rc[node_index] = cb,
                       !.rp[node_index] = initial_node,
                       !.ncalls = Append(@, Call(node_index, cb, out, TRUE))]

\* ------------------------------------------------------------------------
\* The live tag function (src/ima.js:194-263)

\* The static text child of host h
StaticText(h) == TextNode(h, 0, 0, "s")

RECURSIVE appendChildren(_, _, _, _, _)
\* The loop over children (src/ima.js:248-259): layout[k..] are the children
\* left, "S" a string and "P" a producer; n producers came before.  A
\* producer that throws ends the call.
appendChildren(M, h, layout, n, outs) ==
    IF layout = <<>> \/ M.threw THEN M
    ELSE IF Head(layout) = "S"
    THEN appendChildren([M EXCEPT !.el = appendChild(@, h, StaticText(h))],
                        h, Tail(layout), n, outs)
    ELSE appendChildren(setupReactiveNode(M, h, n + 1, outs[Callback(h, n + 1)]),
                        h, Tail(layout), n + 1, outs)

\* The call h(props, ...children): has_attr says whether props holds the
\* reactive attribute; outs gives what each producer returns.
tagGenerator(M, h, has_attr, layout, outs) ==
    LET M0 == [M EXCEPT !.el[h] = [built |-> "yes", connected |-> FALSE,
                                   attr |-> ABSENT, kids |-> <<>>]]
        M1 == IF has_attr THEN setupReactiveAttr(M0, h, outs[Callback(h, 0)]) ELSE M0
        M2 == appendChildren(M1, h, layout, 0, outs)
    IN IF M2.threw THEN [M2 EXCEPT !.el[h].built = "lost"] ELSE M2

\* ------------------------------------------------------------------------
\* The cleanup pass (src/ima.js:429-484)

CleanupThreshold == 60

RECURSIVE compactNodesLeavingValues(_, _, _)
\* compactNodes without the move of prev_value
compactNodesLeavingValues(M, read_index, write_index) ==
    IF read_index >= M.nc THEN [M EXCEPT !.nc = write_index]
    ELSE LET marker == M.rm[read_index]
             callback == M.rc[read_index]
         IN IF ~IsNil(marker) /\ isConnected(M.el, marker)
            THEN compactNodesLeavingValues(
                   IF write_index # read_index
                   THEN [M EXCEPT !.rm[write_index] = marker,
                                  !.rc[write_index] = callback]
                   ELSE M,
                   read_index + 1, write_index + 1)
            ELSE compactNodesLeavingValues(M, read_index + 1, write_index)

RECURSIVE compactNodes(_, _, _)
\* The first loop (src/ima.js:432-446) from read_index on; returns M with
\* the kept records moved and nc set to the final write_index.
compactNodes(M, read_index, write_index) ==
    IF read_index >= M.nc THEN [M EXCEPT !.nc = write_index]
    ELSE LET marker == M.rm[read_index]
             callback == M.rc[read_index]
             prev_value == M.rp[read_index]
         IN IF ~IsNil(marker) /\ isConnected(M.el, marker)
            THEN compactNodes(
                   IF write_index # read_index
                   THEN [M EXCEPT !.rm[write_index] = marker,
                                  !.rc[write_index] = callback,
                                  !.rp[write_index] = prev_value]
                   ELSE M,
                   read_index + 1, write_index + 1)
            ELSE compactNodes(M, read_index + 1, write_index)

RECURSIVE compactAttrsLeavingCallbacks(_, _, _)
\* compactAttrs without the move of the callback
compactAttrsLeavingCallbacks(M, read_index, write_index) ==
    IF read_index >= M.acnt THEN [M EXCEPT !.acnt = write_index]
    ELSE LET element == M.ae[read_index]
             attr_name == M.an[read_index]
             prev_value == M.ap[read_index]
         IN IF ~IsNil(element) /\ hostConnected(M.el, element)
            THEN compactAttrsLeavingCallbacks(
                   IF write_index # read_index
                   THEN [M EXCEPT !.ae[write_index] = element,
                                  !.an[write_index] = attr_name,
                                  !.ap[write_index] = prev_value]
                   ELSE M,
                   read_index + 1, write_index + 1)
            ELSE compactAttrsLeavingCallbacks(M, read_index + 1, write_index)

RECURSIVE compactAttrs(_, _, _)
\* The loop at src/ima.js:458-474
compactAttrs(M, read_index, write_index) ==
    IF read_index >= M.acnt THEN [M EXCEPT !.acnt = write_index]
    ELSE LET element == M.ae[read_index]
             attr_name == M.an[read_index]
             callback == M.ac[read_index]
             prev_value == M.ap[read_index]
         IN IF ~IsNil(element) /\ hostConnected(M.el, element)
            THEN compactAttrs(
                   IF write_index # read_index
                   THEN [M EXCEPT !.ae[write_index] = element,
                                  !.an[write_index] = attr_name,
                                  !.ac[write_index] = callback,
                                  !.ap[write_index] = prev_value]
                   ELSE M,
                   read_index + 1, write_index + 1)
            ELSE compactAttrs(M, read_index + 1, write_index)

\* cleanupDisconnectedReactives keeping every record
cleanupDisconnectedReactivesKeepingAll(M) == [M EXCEPT !.swept = TRUE]

cleanupDisconnectedReactives(M) ==
    LET old_nc == M.nc
        N == compactNodes(M, 0, 0)
        \* src/ima.js:449-454
        N1 == [N EXCEPT
                 !.rm = [i \in DOMAIN @ |-> IF i >= N.nc /\ i < old_nc THEN NULL_REF ELSE @[i]],
                 !.rc = [i \in DOMAIN @ |-> IF i >= N.nc /\ i < old_nc THEN NULL_REF ELSE @[i]],
                 !.rp = [i \in DOMAIN @ |-> IF i >= N.nc /\ i < old_nc THEN NULL_REF ELSE @[i]]]
        old_acnt == N1.acnt
        A == compactAttrs(N1, 0, 0)
    IN \* src/ima.js:477-483
       [A EXCEPT
          !.ae = [i \in DOMAIN @ |-> IF i >= A.acnt /\ i < old_acnt THEN NULL_REF ELSE @[i]],
          !.an = [i \in DOMAIN @ |-> IF i >= A.acnt /\ i < old_acnt THEN NULL_REF ELSE @[i]],
          !.ac = [i \in DOMAIN @ |-> IF i >= A.acnt /\ i < old_acnt THEN NULL_REF ELSE @[i]],
          !.ap = [i \in DOMAIN @ |-> IF i >= A.acnt /\ i < old_acnt THEN UNDEF_V ELSE @[i]],
          !.swept = TRUE]

\* ------------------------------------------------------------------------
\* The frame loop (src/ima.js:307-420)

\* The attribute pass for slot i (src/ima.js:316-344).  F is the flag
\* found_disconnected_attrs; the result is <<M, F>>.
attrSlot(M, F, i, outs) ==
    LET element == M.ae[i]
        attr_name == M.an[i]
        callback == M.ac[i]
        new_value == outs[callback]
    IN IF IsNil(element) \/ ~hostConnected(M.el, element) THEN <<M, TRUE>>
       ELSE IF IsNil(attr_name) \/ IsNil(callback) THEN <<M, F>>
       ELSE IF new_value = THROWS
       THEN <<[M EXCEPT !.threw = TRUE,
                        !.acalls = Append(@, Call(i, callback, new_value, FALSE))], F>>
       ELSE IF new_value # M.ap[i]
       THEN <<[M EXCEPT !.el = PatchAttr(@, element.h, new_value),
                        !.ap[i] = new_value,
                        !.acalls = Append(@, Call(i, callback, new_value, TRUE))], F>>
       ELSE <<[M EXCEPT !.acalls = Append(@, Call(i, callback, new_value, FALSE))], F>>

RECURSIVE attrPass(_, _, _, _)
\* for (let i = 0; i < reactive_attr_count; i++), from i on
attrPass(M, F, i, outs) ==
    IF i >= M.acnt \/ M.threw THEN <<M, F>>
    ELSE LET r == attrSlot(M, F, i, outs)
         IN attrPass(r[1], r[2], i + 1, outs)

\* needsUpdate comparing primitives by value with the node's text, so that
\* the number 1 and the text "1" differ
needsUpdateByValue(current_node, new_value) ==
    IF new_value.t = "node"
    THEN IF current_node.k = "elem"
         THEN outerHTML(current_node.h) # outerHTML(new_value.v)
         ELSE TRUE
    ELSE IF current_node.k = "text"
         THEN new_value.t # "str" \/ current_node.s # new_value.v
         ELSE TRUE

\* needs_update (src/ima.js:367-387)
needsUpdate(current_node, new_value) ==
    IF new_value.t = "node"
    THEN IF current_node.k = "elem"
         THEN outerHTML(current_node.h) # outerHTML(new_value.v)
         ELSE TRUE
    ELSE LET new_text == TextOf(new_value)
         IN IF current_node.k = "text"
            THEN current_node.s # new_text
            ELSE TRUE

\* nodeSlot clearing at once a slot whose marker is out of the document
nodeSlotClearingDisconnected(M, F, i, outs) ==
    LET marker == M.rm[i]
        callback == M.rc[i]
        new_value == outs[callback]
        current_node == previousSibling(M.el, marker)
        new_node == IF new_value.t = "node" THEN ElemNode(new_value.v)
                    ELSE createTextNode(marker.h, marker.n, TextOf(new_value))
    IN IF IsNil(marker) \/ ~isConnected(M.el, marker)
       THEN <<[M EXCEPT !.rm[i] = NULL_REF, !.rc[i] = NULL_REF, !.rp[i] = NULL_REF], TRUE>>
       ELSE IF IsNil(callback) THEN <<M, F>>
       ELSE IF new_value = THROWS
       THEN <<[M EXCEPT !.threw = TRUE,
                        !.ncalls = Append(@, Call(i, callback, new_value, FALSE))], F>>
       ELSE IF IsNil(current_node)
       THEN <<[M EXCEPT !.ncalls = Append(@, Call(i, callback, new_value, FALSE))], F>>
       ELSE IF needsUpdate(current_node, new_value)
       THEN <<[M EXCEPT !.el = replaceWith(@, current_node, new_node),
                        !.ncalls = Append(@, Call(i, callback, new_value, TRUE))], F>>
       ELSE <<[M EXCEPT !.ncalls = Append(@, Call(i, callback, new_value, FALSE))], F>>

\* The node pass for slot i (src/ima.js:349-403)
nodeSlot(M, F, i, outs) ==
    LET marker == M.rm[i]
        callback == M.rc[i]
        new_value == outs[callback]
        current_node == previousSibling(M.el, marker)
        new_node == IF new_value.t = "node" THEN ElemNode(new_value.v)
                    ELSE createTextNode(marker.h, marker.n, TextOf(new_value))
    IN IF IsNil(marker) \/ ~isConnected(M.el, marker) THEN <<M, TRUE>>
       ELSE IF IsNil(callback) THEN <<M, F>>
       ELSE IF new_value = THROWS
       THEN <<[M EXCEPT !.threw = TRUE,
                        !.ncalls = Append(@, Call(i, callback, new_value, FALSE))], F>>
       ELSE IF IsNil(current_node)
       THEN <<[M EXCEPT !.ncalls = Append(@, Call(i, callback, new_value, FALSE))], F>>
       ELSE IF needsUpdate(current_node, new_value)
       THEN <<[M EXCEPT !.el = replaceWith(@, current_node, new_node),
                        !.ncalls = Append(@, Call(i, callback, new_value, TRUE))], F>>
       ELSE <<[M EXCEPT !.ncalls = Append(@, Call(i, callback, new_value, FALSE))], F>>

RECURSIVE nodePass(_, _, _, _)
\* for (let i = 0; i < reactive_node_count; i++), from i on
nodePass(M, F, i, outs) ==
    IF i >= M.nc \/ M.threw THEN <<M, F>>
    ELSE LET r == nodeSlot(M, F, i, outs)
         IN nodePass(r[1], r[2], i + 1, outs)

\* maybeCleanup sweeping once the counter has passed the threshold
maybeCleanupPastThreshold(M, found_disconnected_attrs, found_disconnected_nodes) ==
    IF found_disconnected_attrs \/ found_disconnected_nodes
    THEN IF M.cc + 1 > CleanupThreshold
         THEN cleanupDisconnectedReactives([M EXCEPT !.cc = 0])
         ELSE [M EXCEPT !.cc = @ + 1]
    ELSE M

\* maybeCleanup with a counter that every frame advances
maybeCleanupCountingEveryTick(M, found_disconnected_attrs, found_disconnected_nodes) ==
    IF M.cc + 1 >= CleanupThreshold /\ (found_disconnected_attrs \/ found_disconnected_nodes)
    THEN cleanupDisconnectedReactives([M EXCEPT !.cc = 0])
    ELSE [M EXCEPT !.cc = @ + 1]

\* src/ima.js:406-413
maybeCleanup(M, found_disconnected_attrs, found_disconnected_nodes) ==
    IF found_disconnected_attrs \/ found_disconnected_nodes
    THEN IF M.cc + 1 >= CleanupThreshold
         THEN cleanupDisconnectedReactives([M EXCEPT !.cc = 0])
         ELSE [M EXCEPT !.cc = @ + 1]
    ELSE M

\* updateReactiveComponents with the passes wrapped in a try/catch that
\* swallows what a producer throws
updateReactiveComponentsCatching(M, outs) ==
    LET a == attrPass(M, FALSE, 0, outs)
        n == nodePass(a[1], FALSE, 0, outs)
    IN maybeCleanup([n[1] EXCEPT !.threw = FALSE], a[2], n[2])

\* updateReactiveComponents with the cleanup run between the two passes
updateReactiveComponentsSweepingBetweenPasses(M, outs) ==
    LET a == attrPass(M, FALSE, 0, outs)
        found_disconnected_nodes ==
            \E i \in 0..(a[1].nc - 1) :
                IsNil(a[1].rm[i]) \/ ~isConnected(a[1].el, a[1].rm[i])
        c == maybeCleanup(a[1], a[2], found_disconnected_nodes)
        n == nodePass(c, FALSE, 0, outs)
    IN IF a[1].threw THEN a[1] ELSE n[1]

\* updateReactiveComponents with the node pass run before the attribute pass
updateReactiveComponentsNodesFirst(M, outs) ==
    LET n == nodePass(M, FALSE, 0, outs)
        a == attrPass(n[1], FALSE, 0, outs)
    IN IF a[1].threw THEN a[1] ELSE maybeCleanup(a[1], a[2], n[2])

\* updateReactiveComponents() up to the rescheduling; a producer that throws
\* ends it where it stands
updateReactiveComponents(M, outs) ==
    LET a == attrPass(M, FALSE, 0, outs)
        n == nodePass(a[1], FALSE, 0, outs)
    IN IF n[1].threw THEN n[1] ELSE maybeCleanup(n[1], a[2], n[2])

\* ------------------------------------------------------------------------
\* The actions

Producers(layout) == Cardinality({k \in 1..Len(layout) : layout[k] = "P"})

\* Bindings registered over a run
MaxBindings == 2

\* What the producers named in cbs may do when called: return a value of
\* avals (attribute producers) or nvals (node producers), or throw if throws
Outcomes(cbs, avals, nvals, throws) ==
    LET T == IF throws THEN {THROWS} ELSE {}
        acbs == {cb \in cbs : cb.n = 0}
    IN {fa @@ fn : fa \in [acbs -> avals \cup T], fn \in [cbs \ acbs -> nvals \cup T]}

\* The callbacks of a tag function call
CallbacksOf(h, has_attr, layout) ==
    (IF has_attr THEN {Callback(h, 0)} ELSE {})
    \cup {Callback(h, n) : n \in 1..Producers(layout)}

AllCallbacks == {Callback(h, n) : h \in Hosts, n \in 0..MaxKids}

\* The values returned in a sequence of calls, over the ones known before
Returned(calls, known) ==
    [cb \in AllCallbacks |->
        IF \E k \in 1..Len(calls) : calls[k].cb = cb /\ calls[k].out # THROWS
        THEN calls[CHOOSE k \in 1..Len(calls) : calls[k].cb = cb].out
        ELSE known[cb]]

Install(M, op) ==
    /\ el' = M.el
    /\ reactive_markers' = M.rm
    /\ reactive_callbacks' = M.rc
    /\ reactive_prev_values' = M.rp
    /\ reactive_node_count' = M.nc
    /\ reactive_attr_elements' = M.ae
    /\ reactive_attr_names' = M.an
    /\ reactive_attr_callbacks' = M.ac
    /\ reactive_attr_prev_values' = M.ap
    /\ reactive_attr_count' = M.acnt
    /\ cleanup_counter' = M.cc
    /\ last' = [op |-> op, threw |-> M.threw, swept |-> M.swept,
                acalls |-> M.acalls, ncalls |-> M.ncalls]
    /\ latest' = Returned(M.acalls \o M.ncalls, latest)
    /\ UNCHANGED <<call, rendered>>

\* The module once loaded, in a browser (window) or without one
LoadedIn(window) ==
    /\ el = [h \in Hosts |-> [built |-> "no", connected |-> FALSE,
                              attr |-> ABSENT, kids |-> <<>>]]
    /\ reactive_markers = [i \in 0..(NodeCap - 1) |-> UNDEF_REF]
    /\ reactive_callbacks = [i \in 0..(NodeCap - 1) |-> UNDEF_REF]
    /\ reactive_prev_values = [i \in 0..(NodeCap - 1) |-> UNDEF_REF]
    /\ reactive_node_count = 0
    /\ reactive_attr_elements = [i \in 0..(AttrCap - 1) |-> UNDEF_REF]
    /\ reactive_attr_names = [i \in 0..(AttrCap - 1) |-> UNDEF_REF]
    /\ reactive_attr_callbacks = [i \in 0..(AttrCap - 1) |-> UNDEF_REF]
    /\ reactive_attr_prev_values = [i \in 0..(AttrCap - 1) |-> UNDEF_V]
    /\ reactive_attr_count = 0
    /\ cleanup_counter = 0
    \* src/ima.js:297-299
    /\ raf_pending = (IF window THEN 1 ELSE 0)
    /\ last = [op |-> "load", threw |-> FALSE, swept |-> FALSE,
               acalls |-> <<>>, ncalls |-> <<>>]
    /\ latest = [cb \in AllCallbacks |-> NEVER]
    /\ frames = 0

\* The module once loaded in a browser
Loaded == LoadedIn(TRUE)

\* No call under study
NO_CALL == [tag |-> "-", args |-> <<>>, returns |-> <<>>]
NOT_RENDERED == [t |-> "none"]

Init ==
    /\ Loaded
    /\ call = NO_CALL
    /\ rendered = [static |-> NOT_RENDERED, live |-> NOT_RENDERED, server |-> NOT_RENDERED]

\* The registrations made so far stay within the bound
Room(has_attr, layout) ==
    reactive_attr_count + reactive_node_count
      + Cardinality(CallbacksOf("-", has_attr, layout)) <= MaxBindings

\* The shapes of a call: <<has_attr, layout>>
Shapes(attrs, layouts) == {<<a, l>> : a \in attrs, l \in layouts}

\* User code calls the tag function for element h (the elements are built
\* in their order, being interchangeable) with one of the shapes, its
\* producers returning values of avals and nvals (or throwing, if throws);
\* with attach it runs document.body.appendChild(h(...)), so that the
\* element is attached before any frame runs.
Construct(h, shapes, avals, nvals, throws, attach) ==
    /\ el[h].built = "no"
    /\ \A g \in Hosts : HostOrder[g] < HostOrder[h] => el[g].built # "no"
    /\ \E shape \in shapes :
         /\ Room(shape[1], shape[2])
         /\ \E outs \in Outcomes(CallbacksOf(h, shape[1], shape[2]), avals, nvals, throws) :
              LET M == tagGenerator(Cur, h, shape[1], shape[2], outs)
              IN Install([M EXCEPT !.el[h].connected = attach /\ ~M.threw], "construct")
    /\ UNCHANGED <<raf_pending, frames>>

\* User code appends element h to the document.
Attach(h) ==
    /\ el[h].built = "yes"
    /\ ~el[h].connected
    /\ Install([Cur EXCEPT !.el[h].connected = TRUE], "user")
    /\ UNCHANGED <<raf_pending, frames>>

\* User code removes element h from the document.
Detach(h) ==
    /\ el[h].connected
    /\ Install([Cur EXCEPT !.el[h].connected = FALSE], "user")
    /\ UNCHANGED <<raf_pending, frames>>

\* The callbacks a frame can reach
TickCallbacks ==
    {reactive_attr_callbacks[i] : i \in {j \in 0..(reactive_attr_count - 1) :
        ~IsNil(reactive_attr_callbacks[j]) /\ hostConnected(el, reactive_attr_elements[j])}}
    \cup
    {reactive_callbacks[i] : i \in {j \in 0..(reactive_node_count - 1) :
        ~IsNil(reactive_callbacks[j]) /\ ~IsNil(reactive_markers[j])
        /\ isConnected(el, reactive_markers[j])}}

\* The frame callback scheduling itself at its start as well as at its end
FrameRearmingTwice(avals, nvals, throws) ==
    /\ raf_pending > 0
    /\ \E outs \in Outcomes(TickCallbacks, avals, nvals, throws) :
         LET M == updateReactiveComponents(Cur, outs)
         IN /\ Install(M, "tick")
            /\ raf_pending' = (raf_pending - 1) + 1 + (IF M.threw THEN 0 ELSE 1)

\* The browser runs the frame callback, whose producers return values of
\* avals and nvals (or throw, if throws); it re-arms itself at its end
\* (src/ima.js:419), which a throwing producer keeps it from reaching.
Frame(avals, nvals, throws) ==
    /\ raf_pending > 0
    /\ \E outs \in Outcomes(TickCallbacks, avals, nvals, throws) :
         LET M == updateReactiveComponents(Cur, outs)
         IN /\ Install(M, "tick")
            /\ raf_pending' = (raf_pending - 1) + (IF M.threw THEN 0 ELSE 1)

\* ------------------------------------------------------------------------
\* Spec: pages that mount their elements in one task and never remove
\* them; node producers return primitives.

Mount(h) ==
    Construct(h, Shapes(BOOLEAN, {<<>>, <<"P">>}), AttrVals, PrimVals, FALSE, TRUE)

Tick == Frame(AttrVals, PrimVals, TRUE) /\ UNCHANGED frames

Next ==
    \/ \E h \in Hosts : Mount(h)
    \/ Tick

Spec == Init /\ [][Next]_vars

\* ------------------------------------------------------------------------
\* Claims

\* The attribute a value stands for: true and false are written as the
\* strings "true" and "false", null and undefined mean no attribute.
Coerced(v) ==
    CASE v = TRUE_V -> Present("true")
      [] v = FALSE_V -> Present("false")
      [] v \in {NULL_V, UNDEF_V} -> ABSENT
      [] OTHER -> Present(String(v))

\* The attribute slots that hold a record
AttrSlots == {i \in 0..(reactive_attr_count - 1) : ~IsNil(reactive_attr_elements[i])}
\* The node slots that hold a record
NodeSlots == {i \in 0..(reactive_node_count - 1) : ~IsNil(reactive_markers[i])}

\* C1: for every attribute binding of a connected host, after every frame
\* the host's attribute is the coercion of what the producer last returned
\* (true -> "true", false -> "false" with the attribute kept, null and
\* undefined -> no attribute, anything else -> its string form), and a frame
\* in which the producer returns the value it returned last writes nothing.
C1_AttrFollowsProducer ==
    [][last'.op = "tick" =>
         /\ \A i \in AttrSlots' :
              LET h == reactive_attr_elements'[i].h
                  cb == reactive_attr_callbacks'[i]
              IN el'[h].connected /\ latest'[cb] # NEVER
                   => el'[h].attr = Coerced(latest'[cb])
         /\ \A k \in 1..Len(last'.acalls) :
              LET c == last'.acalls[k]
              IN c.out = latest[c.cb] => ~c.wrote]_vars

\* C1's case: a frame wrote "false" for a producer that returned false
\* after true, and left alone an attribute whose producer repeated itself.
C1_Witness ==
    /\ last.op = "tick"
    /\ \E k \in 1..Len(last.acalls) :
         /\ last.acalls[k].out = FALSE_V
         /\ last.acalls[k].wrote
         /\ el[last.acalls[k].cb.h].attr = Present("false")
    /\ \E k \in 1..Len(last.acalls) :
         /\ last.acalls[k].out = TRUE_V
         /\ ~last.acalls[k].wrote

\* C2: for a node binding whose producer returns a primitive, the node
\* before the marker is a text node whose text is the string form of what
\* the producer last returned, after registration and after every frame.
C2_TextIsStringForm ==
    \A i \in NodeSlots :
        LET marker == reactive_markers[i]
            v == latest[reactive_callbacks[i]]
        IN isConnected(el, marker) /\ v \in PrimVals
             => /\ previousSibling(el, marker).k = "text"
                /\ previousSibling(el, marker).s = String(v)

\* C3 as stated: a frame replaces the content of a binding exactly when the
\* primitive its producer returns is not the primitive it returned last.
C3_ReplacedIffValueDiffers ==
    [][last'.op = "tick" =>
         \A k \in 1..Len(last'.ncalls) :
            LET c == last'.ncalls[k]
            IN c.out \in PrimVals /\ latest[c.cb] \in PrimVals
                 => (c.wrote <=> c.out # latest[c.cb])]_vars

\* C3 amended: a frame replaces the content of a binding exactly when the
\* text String(v || "") of the primitive its producer returns is not the
\* text of the primitive it returned last; the replacement puts that text
\* before the marker.
C3_ReplacedIffTextDiffers ==
    [][last'.op = "tick" =>
         \A k \in 1..Len(last'.ncalls) :
            LET c == last'.ncalls[k]
            IN c.out \in PrimVals /\ latest[c.cb] \in PrimVals
                 => /\ c.wrote <=> TextOf(c.out) # TextOf(latest[c.cb])
                    /\ previousSibling(el', Marker(c.cb.h, c.cb.n)) # previousSibling(el, Marker(c.cb.h, c.cb.n))
                         <=> c.wrote
                    /\ previousSibling(el', Marker(c.cb.h, c.cb.n)).s = TextOf(c.out)]_vars

\* C3's case: a frame replaced the text of a binding whose producer went
\* from 1 to 0, and a frame left alone one whose producer repeated itself.
C3_Witness ==
    /\ last.op = "tick"
    /\ \E k \in 1..Len(last.ncalls) :
         /\ last.ncalls[k].out = Num("0")
         /\ last.ncalls[k].wrote
    /\ \E k \in 1..Len(last.ncalls) :
         /\ last.ncalls[k].out = Num("1")
         /\ ~last.ncalls[k].wrote

\* C7: once the loop has started, a frame is always scheduled.
C7_AlwaysRearmed == raf_pending = 1

\* ------------------------------------------------------------------------
\* SpecNodes: pages that mount their elements in one task, whose node
\* producers return primitives and elements made by user code.

NodeVals == {Num("1"), NodeV("e1"), NodeV("e2")}

MountNodes(h) ==
    Construct(h, Shapes({FALSE}, {<<"P">>, <<"P", "P">>, <<"S", "P", "P">>}),
              {}, NodeVals, FALSE, TRUE)

TickNodes == Frame({}, NodeVals, FALSE) /\ UNCHANGED frames

NextNodes ==
    \/ \E h \in Hosts : MountNodes(h)
    \/ TickNodes

SpecNodes == Init /\ [][NextNodes]_vars

\* C4: after every frame, every node binding whose marker is attached has
\* a content node of its own (a text node or an element, and neither
\* another binding's marker nor the element's static text) right before
\* its marker, and no frame replaces or detaches a marker.
C4_OneContentBeforeMarker ==
    [][last'.op = "tick" =>
         /\ \A i \in NodeSlots :
              reactive_markers[i] \in Attached(el) => reactive_markers[i] \in Attached(el')
         /\ \A i \in NodeSlots' :
              LET marker == reactive_markers'[i]
                  c == previousSibling(el', marker)
              IN marker \in Attached(el')
                   => /\ c.k \in {"text", "elem"}
                      /\ c # StaticText(marker.h)]_vars

\* ------------------------------------------------------------------------
\* SpecSweep: pages that build elements, attach them and remove them at
\* any time, and whose producers may throw.

SweepAttrVals == {TRUE_V, FALSE_V}
SweepNodeVals == {Num("1"), Str("2")}

\* An element with the reactive attribute, or one with a reactive child
SweepShapes == {<<TRUE, <<>>>>, <<FALSE, <<"P">>>>}

Build(h) == Construct(h, SweepShapes, SweepAttrVals, SweepNodeVals, TRUE, FALSE)

TickSweep == Frame(SweepAttrVals, SweepNodeVals, TRUE) /\ UNCHANGED frames

NextSweep ==
    \/ \E h \in Hosts : Build(h)
    \/ \E h \in Hosts : Attach(h)
    \/ \E h \in Hosts : Detach(h)
    \/ TickSweep

SpecSweep == Init /\ [][NextSweep]_vars

\* The slots whose host is out of the document (or that hold no record)
DeadAttrSlots ==
    {i \in 0..(reactive_attr_count - 1) :
        IsNil(reactive_attr_elements[i]) \/ ~el[reactive_attr_elements[i].h].connected}
DeadNodeSlots ==
    {i \in 0..(reactive_node_count - 1) :
        \/ IsNil(reactive_markers[i])
        \/ ~\E h \in Hosts : el[h].connected /\ reactive_markers[i] \in Range(el[h].kids)}

\* The records of a registry q at the slots of I, in slot order
RECURSIVE Kept(_, _, _, _)
Kept(q, I, i, n) ==
    IF i >= n THEN <<>>
    ELSE (IF i \in I THEN <<q[i]>> ELSE <<>>) \o Kept(q, I, i + 1, n)

\* C5: a frame does not call the producer of a slot whose host (or marker)
\* is out of the document, leaves that host's DOM as it is, raises no
\* exception for it and keeps the slot unless the sweep runs in it; a sweep
\* leaves no such slot behind, takes exactly their number off the active
\* count of each registry and keeps the other records in their order.
C5_DisconnectedSkippedThenSwept ==
    [][last'.op = "tick" =>
         /\ \A i \in DeadAttrSlots :
              /\ \A k \in 1..Len(last'.acalls) : last'.acalls[k].i # i
              /\ ~IsNil(reactive_attr_elements[i])
                   => el'[reactive_attr_elements[i].h] = el[reactive_attr_elements[i].h]
              /\ ~last'.swept =>
                   /\ reactive_attr_elements'[i] = reactive_attr_elements[i]
                   /\ reactive_attr_callbacks'[i] = reactive_attr_callbacks[i]
                   /\ reactive_attr_prev_values'[i] = reactive_attr_prev_values[i]
         /\ \A i \in DeadNodeSlots :
              /\ \A k \in 1..Len(last'.ncalls) : last'.ncalls[k].i # i
              /\ ~IsNil(reactive_markers[i])
                   => el'[reactive_markers[i].h] = el[reactive_markers[i].h]
              /\ ~last'.swept =>
                   /\ reactive_markers'[i] = reactive_markers[i]
                   /\ reactive_callbacks'[i] = reactive_callbacks[i]
                   /\ reactive_prev_values'[i] = reactive_prev_values[i]
         /\ ~last'.swept =>
              /\ reactive_attr_count' = reactive_attr_count
              /\ reactive_node_count' = reactive_node_count
         /\ last'.threw =>
              \E k \in 1..Len(last'.acalls \o last'.ncalls) :
                  (last'.acalls \o last'.ncalls)[k].out = THROWS
         /\ last'.swept =>
              /\ DeadAttrSlots' = {} /\ DeadNodeSlots' = {}
              /\ reactive_attr_count' = reactive_attr_count - Cardinality(DeadAttrSlots)
              /\ reactive_node_count' = reactive_node_count - Cardinality(DeadNodeSlots)
              /\ Kept(reactive_attr_callbacks', 0..(reactive_attr_count' - 1), 0, AttrCap)
                   = Kept(reactive_attr_callbacks,
                          (0..(reactive_attr_count - 1)) \ DeadAttrSlots, 0, AttrCap)
              /\ Kept(reactive_callbacks', 0..(reactive_node_count' - 1), 0, NodeCap)
                   = Kept(reactive_callbacks,
                          (0..(reactive_node_count - 1)) \ DeadNodeSlots, 0, NodeCap)]_vars

\* C5's case: a frame that skipped a slot out of the document while it
\* called the producer of another, and swept the skipped slot away, the
\* record behind it moving to slot 0.
C5_Witness ==
    /\ last.op = "tick" /\ last.swept
    /\ Len(last.acalls) = 1 /\ last.acalls[1].i = 1
    /\ reactive_attr_count = 1
    /\ reactive_attr_callbacks[0] = last.acalls[1].cb
    /\ reactive_attr_elements[1] = NULL_REF

\* C8: a producer that throws ends the operation that called it.  In a
\* frame the exception leaves the loop (which is not scheduled again), the
\* throwing call is the last one made, no slot after it is looked at, no
\* sweep runs, the counters and the registries' records stay, and what the
\* slots before it wrote stays written.  In a tag function call the caller
\* gets the exception and no element.
C8_ThrowEndsTheOperation ==
    [][LET ca == last'.acalls
           cn == last'.ncalls
       IN (\E k \in 1..Len(ca \o cn) : (ca \o cn)[k].out = THROWS) =>
            /\ last'.threw
            /\ \A k \in 1..Len(ca) : ca[k].out = THROWS => k = Len(ca) /\ cn = <<>>
            /\ \A k \in 1..Len(cn) : cn[k].out = THROWS => k = Len(cn)
            /\ \A k \in 1..Len(ca) : ca[k].i <= ca[Len(ca)].i
            /\ \A k \in 1..Len(cn) : cn[k].i <= cn[Len(cn)].i
            /\ last'.op = "tick" =>
                 /\ raf_pending' = raf_pending - 1
                 /\ ~last'.swept
                 /\ cleanup_counter' = cleanup_counter
                 /\ reactive_attr_count' = reactive_attr_count
                 /\ reactive_node_count' = reactive_node_count
                 /\ reactive_attr_elements' = reactive_attr_elements
                 /\ reactive_attr_callbacks' = reactive_attr_callbacks
                 /\ reactive_markers' = reactive_markers
                 /\ reactive_callbacks' = reactive_callbacks
                 /\ \A k \in 1..Len(ca) :
                      LET h == reactive_attr_elements[ca[k].i].h
                      IN IF ca[k].wrote
                         THEN /\ el'[h].attr = Coerced(ca[k].out)
                              /\ reactive_attr_prev_values'[ca[k].i] = ca[k].out
                         ELSE /\ el'[h].attr = el[h].attr
                              /\ reactive_attr_prev_values'[ca[k].i]
                                   = reactive_attr_prev_values[ca[k].i]
                 /\ \A i \in 0..(reactive_attr_count - 1) :
                      (\A k \in 1..Len(ca) : ca[k].i # i) =>
                          /\ reactive_attr_prev_values'[i] = reactive_attr_prev_values[i]
                          /\ ~IsNil(reactive_attr_elements[i]) =>
                               el'[reactive_attr_elements[i].h].attr
                                 = el[reactive_attr_elements[i].h].attr
                 /\ \A k \in 1..Len(cn) :
                      LET m == reactive_markers[cn[k].i]
                      IN IF cn[k].wrote
                         THEN previousSibling(el', m).s = TextOf(cn[k].out)
                         ELSE el'[m.h].kids = el[m.h].kids
                 /\ \A i \in 0..(reactive_node_count - 1) :
                      (\A k \in 1..Len(cn) : cn[k].i # i) /\ ~IsNil(reactive_markers[i])
                          => el'[reactive_markers[i].h].kids = el[reactive_markers[i].h].kids
            /\ last'.op = "construct" =>
                 \A h \in Hosts :
                     IF el[h].built = "no" /\ el'[h].built # "no"
                     THEN el'[h].built = "lost" /\ ~el'[h].connected
                     ELSE el'[h] = el[h]]_vars

\* C8's case: a frame wrote the attribute of slot 0, then the producer of a
\* node slot threw, and the loop was not scheduled again.
C8_Witness ==
    /\ last.op = "tick" /\ last.threw
    /\ Len(last.acalls) = 1 /\ last.acalls[1].wrote
    /\ Len(last.ncalls) = 1 /\ last.ncalls[1].out = THROWS
    /\ raf_pending = 0

\* ------------------------------------------------------------------------
\* SpecRemoval: a page places its elements in the document, the first frame
\* runs, the page removes one element for good, and the frames go on.

\* Frames followed
MaxFrames == 62

\* The elements built and out of the document
Removed == {h \in Hosts : el[h].built = "yes" /\ ~el[h].connected}

Place(h) ==
    /\ frames = 0
    /\ Construct(h, SweepShapes, SweepAttrVals, SweepNodeVals, FALSE, TRUE)

Remove(h) ==
    /\ frames = 1
    /\ Removed = {}
    /\ Detach(h)

TickCounted ==
    /\ frames < MaxFrames
    /\ Frame(SweepAttrVals, SweepNodeVals, FALSE)
    /\ frames' = frames + 1

NextRemoval ==
    \/ \E h \in Hosts : Place(h)
    \/ \E h \in Hosts : Remove(h)
    \/ TickCounted

SpecRemoval == Init /\ [][NextRemoval]_vars

\* The elements built with the reactive attribute, and with a reactive child
AttrHosts == {h \in Hosts : el[h].built = "yes" /\ el[h].kids = <<>>}
NodeHosts == {h \in Hosts : el[h].built = "yes" /\ el[h].kids # <<>>}

\* No registry has a gap: the slots below the active count hold the records
\* of elements in the document, the slots from it on hold none.
Contiguous ==
    /\ \A i \in 0..(AttrCap - 1) :
         IF i < reactive_attr_count
         THEN ~IsNil(reactive_attr_elements[i]) /\ ~IsNil(reactive_attr_callbacks[i])
              /\ el[reactive_attr_elements[i].h].connected
         ELSE IsNil(reactive_attr_elements[i]) /\ IsNil(reactive_attr_callbacks[i])
    /\ \A i \in 0..(NodeCap - 1) :
         IF i < reactive_node_count
         THEN ~IsNil(reactive_markers[i]) /\ ~IsNil(reactive_callbacks[i])
              /\ el[reactive_markers[i].h].connected
         ELSE IsNil(reactive_markers[i]) /\ IsNil(reactive_callbacks[i])

\* C6: with the sweep counter at 0, when the host of exactly one binding is
\* removed after frame 1 and stays removed, frames 2 to 60 keep the binding
\* registered, the sweep runs in frame 61 (the 60th frame that sees the
\* removal), the active count of that binding's registry goes down by
\* exactly one, the other registry keeps its count, and from then on neither
\* registry has a gap.
C6_SweepAtSixtiethObservation ==
    \A h \in Removed :
        /\ frames <= CleanupThreshold =>
             /\ reactive_attr_count = Cardinality(AttrHosts)
             /\ reactive_node_count = Cardinality(NodeHosts)
             /\ cleanup_counter = frames - 1
             /\ ~last.swept
        /\ frames = CleanupThreshold + 1 => last.op = "tick" /\ last.swept
        /\ frames > CleanupThreshold =>
             /\ reactive_attr_count = Cardinality(AttrHosts \ {h})
             /\ reactive_node_count = Cardinality(NodeHosts \ {h})
             /\ cleanup_counter = 0
             /\ Contiguous

\* C6's case: frame 61 swept the binding of the removed first element and
\* moved the second element's record into slot 0.
C6_Witness ==
    /\ frames = CleanupThreshold + 1
    /\ Removed = {"h1"}
    /\ last.swept
    /\ reactive_attr_count = 1
    /\ reactive_attr_elements[0] = HostRef("h2")

\* ------------------------------------------------------------------------
\* The two generators on one call (src/ima.js:151-263, 576-684)

\* A function given in a call, known by the place it is given at
Producer(id) == [t |-> "fn", v |-> id]

\* The keys of the props object in the calls studied
PropKeys == <<"title", "onclick">>
\* key.startsWith("on")
startsWithOn(key) == key = "onclick"

\* A call tag(props, ...children): props are the entries <<key, value>> of
\* the first argument; parseTagArgs (src/ima.js:151-184) takes innerHTML
\* out of them.
parseTagArgs(c) ==
    LET inner == SelectSeq(c.props, LAMBDA e : e[1] = "innerHTML")
    IN [props |-> SelectSeq(c.props, LAMBDA e : e[1] \notin {"is", "ref", "innerHTML"}),
        children |-> c.children,
        innerHTML |-> IF inner = <<>> THEN UNDEF_V ELSE inner[1][2]]

\* src/ima.js:576-591
VOID_ELEMENTS ==
    {"area", "base", "br", "col", "embed", "hr", "img", "input", "link",
     "meta", "param", "source", "track", "wbr"}

\* escapeHtml (src/ima.js:603-610) on the strings of the model, which are
\* one of the five characters or hold none of them
escapeHtml(value) ==
    CASE value = "&" -> "&amp;"
      [] value = "\"" -> "&quot;"
      [] value = "'" -> "&#39;"
      [] value = "<" -> "&lt;"
      [] value = ">" -> "&gt;"
      [] OTHER -> value

RECURSIVE buildAttributesHtmlLikeLive(_)
\* buildAttributesHtml writing true and false as the live path does
buildAttributesHtmlLikeLive(props) ==
    IF props = <<>> THEN ""
    ELSE LET key == Head(props)[1]
             value == Head(props)[2]
         IN (IF startsWithOn(key) \/ value.t = "fn" THEN ""
             ELSE IF value.t \notin {"null", "undef"}
             THEN " " \o key \o "=\"" \o escapeHtml(String(value)) \o "\""
             ELSE "")
            \o buildAttributesHtmlLikeLive(Tail(props))

RECURSIVE buildAttributesHtml(_)
\* src/ima.js:622-639
buildAttributesHtml(props) ==
    IF props = <<>> THEN ""
    ELSE LET key == Head(props)[1]
             value == Head(props)[2]
         IN (IF startsWithOn(key) \/ value.t = "fn" THEN ""
             ELSE IF value = TRUE_V THEN " " \o key
             ELSE IF value # FALSE_V /\ value.t \notin {"null", "undef"}
             THEN " " \o key \o "=\"" \o escapeHtml(String(value)) \o "\""
             ELSE "")
            \o buildAttributesHtml(Tail(props))

RECURSIVE staticChildrenSkippingFunctions(_, _)
\* staticChildren leaving function children out, as the props loop does
staticChildrenSkippingFunctions(children, returns) ==
    IF children = <<>> THEN [html |-> "", called |-> <<>>]
    ELSE LET child == Head(children)
             rest == staticChildrenSkippingFunctions(Tail(children), returns)
         IN IF child.t \in {"null", "undef", "fn"} THEN rest
            ELSE [html |-> String(child) \o rest.html, called |-> rest.called]

RECURSIVE staticChildren(_, _)
\* The loop over children of the static tag function (src/ima.js:670-680):
\* the markup they add and the functions it calls, returns giving what each
\* function returns
staticChildren(children, returns) ==
    IF children = <<>> THEN [html |-> "", called |-> <<>>]
    ELSE LET child == Head(children)
             rest == staticChildren(Tail(children), returns)
         IN IF child.t \in {"null", "undef"} THEN rest
            ELSE IF child.t = "fn"
            THEN [html |-> String(returns[child.v]) \o rest.html,
                  called |-> <<child.v>> \o rest.called]
            ELSE [html |-> String(child) \o rest.html, called |-> rest.called]

\* The static tag function (src/ima.js:648-684)
staticTagGenerator(c) ==
    LET a == parseTagArgs(c)
        html == "<" \o c.tag \o buildAttributesHtml(a.props)
        kids == staticChildren(a.children, c.returns)
    IN IF c.tag \in VOID_ELEMENTS
       THEN [html |-> html \o "/>", called |-> <<>>]
       ELSE IF a.innerHTML # UNDEF_V
       THEN IF a.innerHTML.t = "fn"
            THEN [html |-> html \o ">" \o String(c.returns[a.innerHTML.v])
                             \o "</" \o c.tag \o ">",
                  called |-> <<a.innerHTML.v>>]
            ELSE [html |-> html \o ">" \o String(a.innerHTML) \o "</" \o c.tag \o ">",
                  called |-> <<>>]
       ELSE [html |-> html \o ">" \o kids.html \o "</" \o c.tag \o ">",
             called |-> kids.called]

RECURSIVE setAttributes(_, _)
\* The loop over props of the live tag function on values that are no
\* functions (src/ima.js:210-239): the attributes of the element
setAttributes(attrs, props) ==
    IF props = <<>> THEN attrs
    ELSE LET key == Head(props)[1]
             value == Head(props)[2]
         IN setAttributes(
              IF value = TRUE_V THEN [attrs EXCEPT ![key] = Present("true")]
              ELSE IF value = FALSE_V THEN [attrs EXCEPT ![key] = Present("false")]
              ELSE IF value.t \notin {"null", "undef"}
              THEN [attrs EXCEPT ![key] = Present(String(value))]
              ELSE attrs,
              Tail(props))

RECURSIVE appendTextChildren(_)
\* The loop over children of the live tag function on strings, numbers,
\* null and undefined (src/ima.js:248-259): the child nodes of the element
appendTextChildren(children) ==
    IF children = <<>> THEN <<>>
    ELSE LET child == Head(children)
         IN (IF child.t \in {"null", "undef"} THEN <<>>
             ELSE <<[k |-> "text", s |-> String(child)]>>)
            \o appendTextChildren(Tail(children))

\* The live tag function on a call without functions (src/ima.js:194-263):
\* the element it returns
liveElement(c) ==
    LET a == parseTagArgs(c)
    IN [tag |-> c.tag,
        attrs |-> setAttributes([key \in Range(PropKeys) |-> ABSENT], a.props),
        kids |-> IF a.innerHTML # UNDEF_V
                 THEN <<[k |-> "markup", s |-> String(a.innerHTML)]>>
                 ELSE appendTextChildren(a.children)]

\* ------------------------------------------------------------------------
\* SpecStatic: one call, given to the static tag function and, when it
\* holds no function, to the live one.

\* Children of a call
MaxChildren == 2

Tags == {"div", "br"}
TitleVals == {TRUE_V, FALSE_V, NULL_V, UNDEF_V, Str("x"), Str("<"), Num("0"),
              Producer("title")}
HandlerVals == {Str("x"), Producer("onclick")}
InnerVals == {Str("x"), Producer("innerHTML")}
ChildKinds == {Str("x"), Str("<"), Num("0"), NULL_V, Producer("child")}
ReturnVals == {Str("y"), Num("0")}

Entry(key, vals) == {<<>>} \cup {<<<<key, v>>>> : v \in vals}

PropsOf ==
    {t \o o \o i : t \in Entry("title", TitleVals), o \in Entry("onclick", HandlerVals),
                   i \in Entry("innerHTML", InnerVals)}

\* The children, a function child being known by its position
ChildrenOf ==
    {[k \in 1..n |-> IF q[k].t = "fn" THEN Producer("child" \o ToString(k)) ELSE q[k]] :
        n \in 0..MaxChildren, q \in [1..MaxChildren -> ChildKinds]}

\* The functions given in props and children
FunctionsIn(props, children) ==
    {e[2].v : e \in {x \in Range(props) : x[2].t = "fn"}}
    \cup {x.v : x \in {y \in Range(children) : y.t = "fn"}}

\* The call under study is one of the calls
CallGiven ==
    \E t \in Tags, p \in PropsOf, ch \in ChildrenOf :
        \E r \in [FunctionsIn(p, ch) -> ReturnVals] :
            call = [tag |-> t, props |-> p, children |-> ch, returns |-> r]

InitStatic ==
    /\ Loaded
    /\ CallGiven
    /\ rendered = [static |-> NOT_RENDERED, live |-> NOT_RENDERED, server |-> NOT_RENDERED]

\* useStaticTags()[tag](...args)
RenderStatic ==
    /\ rendered.static = NOT_RENDERED
    /\ rendered' = [rendered EXCEPT !.static = staticTagGenerator(call)]
    /\ UNCHANGED <<el, reactive_markers, reactive_callbacks, reactive_prev_values,
                   reactive_node_count, reactive_attr_elements, reactive_attr_names,
                   reactive_attr_callbacks, reactive_attr_prev_values,
                   reactive_attr_count, cleanup_counter, raf_pending, last, latest,
                   frames, call>>

\* useTags()[tag](...args), for a call that holds no function
RenderLive ==
    /\ rendered.live = NOT_RENDERED
    /\ FunctionsIn(call.props, call.children) = {}
    /\ rendered' = [rendered EXCEPT !.live = liveElement(call)]
    /\ UNCHANGED <<el, reactive_markers, reactive_callbacks, reactive_prev_values,
                   reactive_node_count, reactive_attr_elements, reactive_attr_names,
                   reactive_attr_callbacks, reactive_attr_prev_values,
                   reactive_attr_count, cleanup_counter, raf_pending, last, latest,
                   frames, call>>

NextStatic == RenderStatic \/ RenderLive

SpecStatic == InitStatic /\ [][NextStatic]_vars

\* How often x occurs in the sequence q
Occurrences(q, x) == Cardinality({k \in 1..Len(q) : q[k] = x})

\* The functions given as the value of an attribute, and as children
AttrFunctions(c) ==
    {e[2].v : e \in {x \in Range(parseTagArgs(c).props) :
                        x[2].t = "fn" /\ ~startsWithOn(x[1])}}
ChildFunctions(c) == {x.v : x \in {y \in Range(c.children) : y.t = "fn"}}

\* C9 as stated: the static tag function calls every producer it is given,
\* as an attribute value or as a child, exactly once, and registers nothing.
C9_EveryProducerCalledOnce ==
    rendered.static # NOT_RENDERED =>
        /\ \A id \in AttrFunctions(call) \cup ChildFunctions(call) :
               Occurrences(rendered.static.called, id) = 1
        /\ reactive_attr_count = 0 /\ reactive_node_count = 0

\* A value given as a child, a function standing for what it returns
Resolved(c, x) == IF x.t = "fn" THEN c.returns[x.v] ELSE x

RECURSIVE ChildrenText(_, _)
\* The string forms of the children that are not null or undefined, in a row
ChildrenText(c, children) ==
    IF children = <<>> THEN ""
    ELSE (IF Head(children).t \in {"null", "undef"} THEN ""
          ELSE String(Resolved(c, Head(children))))
         \o ChildrenText(c, Tail(children))

\* C9: the static tag function registers nothing; it never calls a function
\* given as the value of a property and writes no attribute for it; for a
\* void tag it calls nothing and writes no child; given innerHTML it leaves
\* the children out and calls innerHTML, if a function, exactly once;
\* otherwise it calls every function child exactly once, in the order of
\* the children, and the string form of what each returned stands in the
\* markup at the child's place.
C9_ChildProducersCalledOnce ==
    rendered.static # NOT_RENDERED =>
        LET a == parseTagArgs(call)
            r == rendered.static
            open == "<" \o call.tag
                      \o buildAttributesHtml(SelectSeq(a.props, LAMBDA e : e[2].t # "fn"))
            close == "</" \o call.tag \o ">"
        IN /\ reactive_attr_count = 0 /\ reactive_node_count = 0
           /\ reactive_attr_elements = [i \in 0..(AttrCap - 1) |-> UNDEF_REF]
           /\ reactive_markers = [i \in 0..(NodeCap - 1) |-> UNDEF_REF]
           /\ \A e \in Range(a.props) : e[2].t = "fn" => Occurrences(r.called, e[2].v) = 0
           /\ IF call.tag \in VOID_ELEMENTS
              THEN r.called = <<>> /\ r.html = open \o "/>"
              ELSE IF a.innerHTML # UNDEF_V
              THEN /\ r.called = (IF a.innerHTML.t = "fn" THEN <<a.innerHTML.v>> ELSE <<>>)
                   /\ r.html = open \o ">" \o String(Resolved(call, a.innerHTML)) \o close
              ELSE /\ Len(r.called) = Cardinality(ChildFunctions(call))
                   /\ r.called = [k \in 1..Len(r.called) |->
                                    SelectSeq(call.children, LAMBDA x : x.t = "fn")[k].v]
                   /\ r.html = open \o ">" \o ChildrenText(call, call.children) \o close

\* C9's case: a div given a producer as its title and a producer as its
\* second child; only the child was called, and what it returned is in the
\* markup.
C9_Witness ==
    /\ rendered.static # NOT_RENDERED
    /\ call.tag = "div"
    /\ call.props = <<<<"title", Producer("title")>>>>
    /\ call.children = <<Str("x"), Producer("child2")>>
    /\ call.returns["child2"] = Num("0")
    /\ rendered.static.called = <<"child2">>
    /\ rendered.static.html = "<div>x0</div>"

\* The serialization of the text of a text node
escapeText(s) ==
    CASE s = "&" -> "&amp;"
      [] s = "<" -> "&lt;"
      [] s = ">" -> "&gt;"
      [] OTHER -> s

\* An attribute written without a value
BARE == [has |-> TRUE, val |-> "", bare |-> TRUE]

RECURSIVE AttrsMarkup(_, _)
AttrsMarkup(attrs, keys) ==
    IF keys = <<>> THEN ""
    ELSE LET a == attrs[Head(keys)]
         IN (IF ~a.has THEN ""
             ELSE IF a = BARE THEN " " \o Head(keys)
             ELSE " " \o Head(keys) \o "=\"" \o escapeHtml(a.val) \o "\"")
            \o AttrsMarkup(attrs, Tail(keys))

RECURSIVE KidsMarkup(_)
KidsMarkup(kids) ==
    IF kids = <<>> THEN ""
    ELSE (IF Head(kids).k = "text" THEN escapeText(Head(kids).s) ELSE Head(kids).s)
         \o KidsMarkup(Tail(kids))

\* The markup of an element: its attributes in the order of PropKeys, their
\* values escaped as the static path escapes them, and its children (a void
\* element shows none)
Markup(e) ==
    "<" \o e.tag \o AttrsMarkup(e.attrs, PropKeys)
    \o (IF e.tag \in VOID_ELEMENTS THEN "/>"
        ELSE ">" \o KidsMarkup(e.kids) \o "</" \o e.tag \o ">")

\* C10 as stated: built from static values only, the live element and the
\* static markup have the same attributes with the same values and the same
\* children.
C10_LiveAndStaticAgree ==
    rendered.static # NOT_RENDERED /\ rendered.live # NOT_RENDERED =>
        rendered.static.html = Markup(rendered.live)

\* The value given for key in props (undefined when it is not given)
Given(props, key) ==
    LET q == SelectSeq(props, LAMBDA e : e[1] = key)
    IN IF q = <<>> THEN UNDEF_V ELSE q[1][2]

\* The element the static markup describes, from the live element e of call
\* c: no attribute for a key that starts with "on" or for the value false, a
\* bare attribute for the value true, the children as raw markup, and no
\* children under a void tag.
StaticView(e, c) ==
    [e EXCEPT
       !.attrs = [key \in DOMAIN @ |->
                    IF startsWithOn(key) THEN ABSENT
                    ELSE IF Given(c.props, key) = TRUE_V THEN BARE
                    ELSE IF Given(c.props, key) = FALSE_V THEN ABSENT
                    ELSE @[key]],
       !.kids = IF e.tag \in VOID_ELEMENTS THEN <<>>
                ELSE [i \in DOMAIN @ |-> [k |-> "markup", s |-> @[i].s]]]

\* A call whose props are strings, numbers, null or undefined under keys
\* that do not start with "on", and whose string children hold no & < >
Plain(c) ==
    /\ \A e \in Range(c.props) : e[2].t \notin {"bool", "fn"} /\ ~startsWithOn(e[1])
    /\ \A x \in Range(c.children) : x.t # "fn" /\ (x.t = "str" => escapeText(x.v) = x.v)

\* C10: built from static values only, the two paths agree on a plain call:
\* the markup is the live element's, attribute for attribute (the values
\* escaped) and child for child.  Otherwise they differ in this and nothing
\* else: for true the live path writes the value "true" and the static one
\* the bare attribute; for false the live path writes "false" and the
\* static one no attribute; under a key that starts with "on" the live path
\* writes the attribute and the static one none; a string child is text on
\* the live path and raw markup on the static one; a void element gets its
\* children on the live path and none on the static one.
C10_AgreeOnPlainCalls ==
    rendered.static # NOT_RENDERED /\ rendered.live # NOT_RENDERED =>
        LET e == rendered.live
        IN /\ rendered.static.html = Markup(StaticView(e, call))
           /\ Plain(call) => rendered.static.html = Markup(e)
           /\ \A k \in 1..Len(PropKeys) :
                LET key == PropKeys[k]
                    v == Given(call.props, key)
                IN e.attrs[key] = Coerced(v)
           /\ Len(e.kids) = IF Given(call.props, "innerHTML") # UNDEF_V THEN 1
                            ELSE Cardinality({i \in 1..Len(call.children) :
                                                call.children[i].t \notin {"null", "undef"}})

\* C10's case: a div with the title "<" and the children "x" and 0 came out
\* the same on both paths, the title escaped.
C10_Witness ==
    /\ rendered.static # NOT_RENDERED
    /\ rendered.live # NOT_RENDERED
    /\ call.tag = "div"
    /\ call.props = <<<<"title", Str("<")>>>>
    /\ call.children = <<Str("x"), Num("0")>>
    /\ rendered.static.html = "<div title=\"&lt;\">x0</div>"
    /\ rendered.static.html = Markup(rendered.live)

\* ------------------------------------------------------------------------
\* SpecServer: the module loaded where there is no window (Node, Bun), and
\* one call of the live tag function there.  document is the stub of
\* src/ima.js:119-133, whose four functions log a warning and return
\* undefined; Node and HTMLElement are not defined.

RECURSIVE stubProps(_, _, _)
\* The loop over props (src/ima.js:210-239) when element is undefined.  R
\* is [warnings, threw, called, registered]: the warnings logged, whether a
\* TypeError or ReferenceError left the call, the producers called and the
\* attribute slots taken (reactive_attr_count++ at src/ima.js:549).
stubProps(R, props, returns) ==
    IF props = <<>> \/ R.threw THEN R
    ELSE LET key == Head(props)[1]
             value == Head(props)[2]
         IN stubProps(
              \* undefined.addEventListener
              IF value.t = "fn" /\ startsWithOn(key) THEN [R EXCEPT !.threw = TRUE]
              \* setupReactiveAttr(undefined, key, value): undefined.setAttribute
              \* unless the producer returns null or undefined
              ELSE IF value.t = "fn"
              THEN [R EXCEPT !.registered = @ + 1,
                             !.called = Append(@, value.v),
                             !.threw = returns[value.v].t \notin {"null", "undef"}]
              \* undefined.setAttribute
              ELSE IF value.t \notin {"null", "undef"} THEN [R EXCEPT !.threw = TRUE]
              ELSE R,
              Tail(props), returns)

\* The live tag function (src/ima.js:194-263) on the stub: createElement
\* warns and returns undefined; then the props, innerHTML (a property set
\* on undefined) and the children (child instanceof Node, Node not being
\* defined) are gone through.
tagGeneratorOnStub(c) ==
    LET a == parseTagArgs(c)
        R0 == [warnings |-> 1, threw |-> FALSE, called |-> <<>>, registered |-> 0]
        R1 == stubProps(R0, a.props, c.returns)
    IN IF R1.threw THEN R1
       ELSE IF a.innerHTML # UNDEF_V THEN [R1 EXCEPT !.threw = TRUE]
       ELSE IF \E k \in 1..Len(a.children) : a.children[k].t \notin {"null", "undef"}
       THEN [R1 EXCEPT !.threw = TRUE]
       ELSE R1

InitServer ==
    /\ LoadedIn(FALSE)
    /\ CallGiven
    /\ rendered = [static |-> NOT_RENDERED, live |-> NOT_RENDERED, server |-> NOT_RENDERED]

\* tagGenerator({}, tag, {})(...args) where there is no window
RenderServer ==
    /\ rendered.server = NOT_RENDERED
    /\ rendered' = [rendered EXCEPT !.server = tagGeneratorOnStub(call)]
    /\ reactive_attr_count' = reactive_attr_count + tagGeneratorOnStub(call).registered
    /\ UNCHANGED <<el, reactive_markers, reactive_callbacks, reactive_prev_values,
                   reactive_node_count, reactive_attr_elements, reactive_attr_names,
                   reactive_attr_callbacks, reactive_attr_prev_values,
                   cleanup_counter, raf_pending, last, latest, frames, call>>

NextServer == RenderServer

SpecServer == InitServer /\ [][NextServer]_vars

\* C11: where there is no document, a call of the live tag function logs a
\* warning and does nothing else, whatever its arguments: it raises no
\* exception, calls no producer and registers nothing.
C11_WarnsAndNeverRaises ==
    rendered.server # NOT_RENDERED =>
        /\ rendered.server.warnings >= 1
        /\ ~rendered.server.threw
        /\ rendered.server.called = <<>>
        /\ reactive_attr_count = 0

\* ------------------------------------------------------------------------
\* SpecAttrs: pages whose elements are given the attribute as a value or as
\* a producer.

StaticAttrVals == {TRUE_V, FALSE_V, NULL_V, UNDEF_V, Str("1"), Num("0")}

\* User code runs document.body.appendChild(tag({a: v})) for a value v
\* that is no function (src/ima.js:210-239).
MountStatic(h) ==
    /\ el[h].built = "no"
    /\ \A g \in Hosts : HostOrder[g] < HostOrder[h] => el[g].built # "no"
    /\ \E v \in StaticAttrVals :
         /\ el' = [el EXCEPT ![h] =
                     [built |-> "yes", connected |-> TRUE,
                      attr |-> setAttributes([key \in {AttrName} |-> ABSENT],
                                             <<<<AttrName, v>>>>)[AttrName],
                      kids |-> <<>>]]
         /\ call' = [tag |-> "div", props |-> <<<<AttrName, v>>>>,
                     children |-> <<>>, returns |-> <<>>]
    /\ last' = [op |-> "construct", threw |-> FALSE, swept |-> FALSE,
                acalls |-> <<>>, ncalls |-> <<>>]
    /\ UNCHANGED <<reactive_markers, reactive_callbacks, reactive_prev_values,
                   reactive_node_count, reactive_attr_elements, reactive_attr_names,
                   reactive_attr_callbacks, reactive_attr_prev_values,
                   reactive_attr_count, cleanup_counter, raf_pending, latest,
                   frames, rendered>>

\* User code runs document.body.appendChild(tag({a: () => v}))
MountReactive(h) ==
    Construct(h, {<<TRUE, <<>>>>}, StaticAttrVals, {}, FALSE, TRUE)

NextAttrs ==
    \/ \E h \in Hosts : MountStatic(h)
    \/ \E h \in Hosts : MountReactive(h)

SpecAttrs == Init /\ [][NextAttrs]_vars

\* The value an element was just built with: the one given, or the one its
\* producer returned
BuiltWith == IF last'.acalls = <<>> THEN call'.props[1][2] ELSE last'.acalls[1].out

\* The coercion with false taken as no attribute
CoercedOmittingFalse(v) == IF v = FALSE_V THEN ABSENT ELSE Coerced(v)

\* C12 as stated: a value given for the attribute and the first value of a
\* producer are written alike: true writes the attribute, false, null and
\* undefined write none, anything else writes its string form.
C12_SameCoercionOmittingFalse ==
    [][\A h \in Hosts :
          el[h].built = "no" /\ el'[h].built = "yes"
              => el'[h].attr = CoercedOmittingFalse(BuiltWith)]_vars

\* C12: a value given for the attribute and the first value of a producer
\* are written alike: true writes the value "true", false writes the value
\* "false", null and undefined write no attribute, anything else writes its
\* string form.
C12_SameCoercionWritingFalse ==
    [][\A h \in Hosts :
          el[h].built = "no" /\ el'[h].built = "yes"
              => el'[h].attr = Coerced(BuiltWith)]_vars

\* C12's case: the first element was given false, the producer of the
\* second returned false, and both carry the value "false".
C12_Witness ==
    /\ el["h1"].built = "yes" /\ el["h2"].built = "yes"
    /\ call.tag = "div" /\ call.props = <<<<AttrName, FALSE_V>>>>
    /\ reactive_attr_count = 1
    /\ latest[Callback("h2", 0)] = FALSE_V
    /\ el["h1"].attr = Present("false")
    /\ el["h2"].attr = Present("false")

\* ------------------------------------------------------------------------
\* Registration (checked under Spec)

\* The element the step has built
Built(h) == last'.op = "construct" /\ el[h].built = "no" /\ el'[h].built = "yes"

\* The callbacks called in a sequence of calls
CalledIn(calls) == {calls[k].cb : k \in 1..Len(calls)}

\* C13: a tag function call whose producers register nothing calls each
\* producer once; a node producer takes one record {marker, producer,
\* initial node} at the next free index of the node registry, the count
\* growing by one and the slots in use staying as they were, and what the
\* element receives for it is the initial node followed at once by the
\* marker; an attribute producer likewise takes one record {element, name,
\* producer, initial value} at the next free index of the attribute registry.
C13_RegistrationAppendsOneRecord ==
    [][\A h \in Hosts : Built(h) =>
         LET ac == last'.acalls
             nc == last'.ncalls
         IN /\ reactive_attr_count' = reactive_attr_count + Len(ac)
            /\ reactive_node_count' = reactive_node_count + Len(nc)
            /\ Cardinality(CalledIn(ac \o nc)) = Len(ac) + Len(nc)
            /\ \A i \in 0..(reactive_attr_count - 1) :
                 /\ reactive_attr_elements'[i] = reactive_attr_elements[i]
                 /\ reactive_attr_names'[i] = reactive_attr_names[i]
                 /\ reactive_attr_callbacks'[i] = reactive_attr_callbacks[i]
                 /\ reactive_attr_prev_values'[i] = reactive_attr_prev_values[i]
            /\ \A i \in 0..(reactive_node_count - 1) :
                 /\ reactive_markers'[i] = reactive_markers[i]
                 /\ reactive_callbacks'[i] = reactive_callbacks[i]
                 /\ reactive_prev_values'[i] = reactive_prev_values[i]
            /\ \A k \in 1..Len(ac) :
                 LET i == reactive_attr_count + k - 1
                 IN /\ ac[k].i = i
                    /\ reactive_attr_elements'[i] = HostRef(h)
                    /\ reactive_attr_names'[i] = NameRef(AttrName)
                    /\ reactive_attr_callbacks'[i] = ac[k].cb
                    /\ reactive_attr_prev_values'[i] = ac[k].out
            /\ \A k \in 1..Len(nc) :
                 LET i == reactive_node_count + k - 1
                 IN /\ nc[k].i = i
                    /\ reactive_markers'[i].k = "marker"
                    /\ reactive_callbacks'[i] = nc[k].cb
                    /\ reactive_prev_values'[i].k = "text"
                    /\ reactive_prev_values'[i].s = TextOf(nc[k].out)
                    /\ SubSeq(el'[h].kids, 2 * k - 1, 2 * k)
                         = <<reactive_prev_values'[i], reactive_markers'[i]>>
            /\ Len(el'[h].kids) = 2 * Len(nc)]_vars

\* C13's case: the second element was built with a node producer when
\* the node registry held one record already, and took the slot after it.
C13_Witness ==
    /\ last.op = "construct"
    /\ last.acalls = <<>>
    /\ Len(last.ncalls) = 1 /\ last.ncalls[1].i = 1
    /\ reactive_node_count = 2
    /\ reactive_callbacks[0] = Callback("h1", 1)
    /\ reactive_callbacks[1] = Callback("h2", 1)
    /\ el["h2"].kids = <<reactive_prev_values[1], reactive_markers[1]>>

\* ------------------------------------------------------------------------
\* SpecCadence: pages that mount their elements before the first frame and
\* take them out of the document and put them back at any time; `frames`
\* counts the frames run since the module was loaded.

CadenceAttrVals == {TRUE_V}
CadenceNodeVals == {Num("1")}

PlaceCadence(h) ==
    /\ frames = 0
    /\ Construct(h, SweepShapes, CadenceAttrVals, CadenceNodeVals, FALSE, TRUE)

TickCadence ==
    /\ frames < MaxFrames
    /\ Frame(CadenceAttrVals, CadenceNodeVals, TRUE)
    /\ frames' = frames + 1

NextCadence ==
    \/ \E h \in Hosts : PlaceCadence(h)
    \/ \E h \in Hosts : Attach(h)
    \/ \E h \in Hosts : Detach(h)
    \/ TickCadence

SpecCadence == Init /\ [][NextCadence]_vars

\* The frame that starts sees a slot out of the document
Observes == DeadAttrSlots # {} \/ DeadNodeSlots # {}

\* C14 as stated, for the frames up to the 60th since the module was
\* loaded: a frame whose producers return sweeps exactly when it is the
\* 60th frame and it, or a frame before it, saw a slot out of the document.
C14_SweepOnSixtiethTick ==
    [][last'.op = "tick" /\ ~last'.threw /\ frames' <= CleanupThreshold =>
         (last'.swept <=> /\ frames' = CleanupThreshold
                          /\ (cleanup_counter > 0 \/ Observes))]_vars

\* C14: the sweep counter advances only in a frame that sees a slot out of
\* the document and whose producers all return; the sweep runs in the frame
\* that takes the counter to 60, that is in the 60th such frame since the
\* previous sweep (or since the module was loaded), and sets the counter
\* back to 0.  A frame that sees no such slot, or in which a producer
\* throws, leaves the counter alone and sweeps nothing.
C14_SweepOnSixtiethObservation ==
    [][last'.op = "tick" =>
         /\ last'.swept <=> /\ ~last'.threw /\ Observes
                            /\ cleanup_counter = CleanupThreshold - 1
         /\ cleanup_counter' =
              (IF last'.threw \/ ~Observes THEN cleanup_counter
               ELSE IF cleanup_counter = CleanupThreshold - 1 THEN 0
               ELSE cleanup_counter + 1)]_vars

\* C14's case: the sweep ran in frame 62, two of the frames before it
\* having seen every slot in the document.
C14_Witness ==
    /\ frames = CleanupThreshold + 2
    /\ last.op = "tick" /\ last.swept
    /\ cleanup_counter = 0

\* ------------------------------------------------------------------------
\* SpecOrder: pages with up to three bindings, two of them on one element,
\* whose elements leave the document and come back and whose producers may
\* throw in a frame.

OrderBindings == MaxBindings + 1
OrderAttrVals == {TRUE_V, FALSE_V}
OrderNodeVals == {Num("1")}

\* An element with the reactive attribute, or with one or two reactive children
OrderShapes == {<<TRUE, <<>>>>, <<FALSE, <<"P">>>>, <<FALSE, <<"P", "P">>>>}

\* User code runs document.body.appendChild(h(...))
Compose(h) ==
    /\ el[h].built = "no"
    /\ \A g \in Hosts : HostOrder[g] < HostOrder[h] => el[g].built # "no"
    /\ \E shape \in OrderShapes :
         /\ reactive_attr_count + reactive_node_count
              + Cardinality(CallbacksOf(h, shape[1], shape[2])) <= OrderBindings
         /\ \E outs \in Outcomes(CallbacksOf(h, shape[1], shape[2]),
                                 OrderAttrVals, OrderNodeVals, FALSE) :
              LET M == tagGenerator(Cur, h, shape[1], shape[2], outs)
              IN Install([M EXCEPT !.el[h].connected = TRUE], "construct")
    /\ UNCHANGED <<raf_pending, frames>>

TickOrder == Frame(OrderAttrVals, OrderNodeVals, TRUE) /\ UNCHANGED frames

NextOrder ==
    \/ \E h \in Hosts : Compose(h)
    \/ \E h \in Hosts : Attach(h)
    \/ \E h \in Hosts : Detach(h)
    \/ TickOrder

SpecOrder == Init /\ [][NextOrder]_vars

\* The records of the registries, slot by slot
AttrRecords ==
    [i \in 0..(AttrCap - 1) |->
        <<reactive_attr_elements[i], reactive_attr_names[i], reactive_attr_callbacks[i]>>]
NodeRecords ==
    [i \in 0..(NodeCap - 1) |->
        <<reactive_markers[i], reactive_callbacks[i], reactive_prev_values[i]>>]

\* C15: a sweep keeps, in each registry, exactly the records whose host (or
\* marker) is in the document, in their order, at the slots 0..k-1, each
\* record with all of its fields at one slot (the last value of an
\* attribute record being what its producer last returned); the slots from
\* k up to the old active count are cleared and the active count is k.
C15_SweepCompactsInOrder ==
    [][last'.op = "tick" /\ last'.swept =>
         LET liveA == (0..(reactive_attr_count - 1)) \ DeadAttrSlots
             liveN == (0..(reactive_node_count - 1)) \ DeadNodeSlots
             ka == Cardinality(liveA)
             kn == Cardinality(liveN)
         IN /\ reactive_attr_count' = ka
            /\ reactive_node_count' = kn
            /\ Kept(AttrRecords', 0..(ka - 1), 0, AttrCap) = Kept(AttrRecords, liveA, 0, AttrCap)
            /\ Kept(NodeRecords', 0..(kn - 1), 0, NodeCap) = Kept(NodeRecords, liveN, 0, NodeCap)
            /\ \A i \in 0..(ka - 1) :
                 reactive_attr_prev_values'[i] = latest'[reactive_attr_callbacks'[i]]
            /\ \A i \in ka..(reactive_attr_count - 1) :
                 /\ AttrRecords'[i] = <<NULL_REF, NULL_REF, NULL_REF>>
                 /\ reactive_attr_prev_values'[i] = UNDEF_V
            /\ \A i \in kn..(reactive_node_count - 1) :
                 NodeRecords'[i] = <<NULL_REF, NULL_REF, NULL_REF>>
            /\ \A i \in reactive_attr_count..(AttrCap - 1) :
                 /\ AttrRecords'[i] = AttrRecords[i]
                 /\ reactive_attr_prev_values'[i] = reactive_attr_prev_values[i]
            /\ \A i \in reactive_node_count..(NodeCap - 1) :
                 NodeRecords'[i] = NodeRecords[i]]_vars

\* C15's case: the sweep dropped the record of the first element and moved
\* the two records of the second element, in their order, to slots 0 and 1.
C15_Witness ==
    /\ last.op = "tick" /\ last.swept
    /\ reactive_node_count = 2
    /\ NodeRecords[0] = <<Marker("h2", 1), Callback("h2", 1), TextNode("h2", 1, 0, "1")>>
    /\ NodeRecords[1] = <<Marker("h2", 2), Callback("h2", 2), TextNode("h2", 2, 0, "1")>>
    /\ NodeRecords[2] = <<NULL_REF, NULL_REF, NULL_REF>>

\* ------------------------------------------------------------------------
\* The replacement decision (checked under SpecNodes)

\* The table of C16: whether output out replaces content cur
Table(cur, out) ==
    IF out.t = "node"
    THEN IF cur.k = "elem" THEN outerHTML(cur.h) # outerHTML(out.v) ELSE TRUE
    ELSE IF cur.k = "text" THEN cur.s # String(out) ELSE TRUE

\* C16: the first node producer a frame calls has its output written over
\* what precedes its marker exactly when the table says so: a node over an
\* element only if their serialized forms differ, a node over anything else
\* always, a primitive over a text node only if its string form differs
\* from the text, a primitive over anything else always.
C16_ReplacementFollowsTable ==
    [][last'.op = "tick" /\ last'.ncalls # <<>> =>
         LET c == last'.ncalls[1]
             cur == previousSibling(el, reactive_markers[c.i])
         IN c.wrote <=> Table(cur, c.out)]_vars

\* ------------------------------------------------------------------------
\* The tracked node (checked under Spec)

\* C17: after every frame, the node the registry tracks for a node binding
\* whose marker is in the document is the node right before the marker.
C17_TrackedNodePrecedesMarker ==
    [][last'.op = "tick" =>
         \A i \in NodeSlots' :
             isConnected(el', reactive_markers'[i])
                 => reactive_prev_values'[i] = previousSibling(el', reactive_markers'[i])]_vars

\* ------------------------------------------------------------------------
\* The order of the calls in a frame (checked under SpecOrder)

\* The place of a binding in the order of registration: elements are built
\* in their order, and an element registers its attribute before its
\* children, from the first to the last.
RegistrationOrder(cb) == HostOrder[cb.h] * (MaxKids + 1) + cb.n

\* The calls of a pass go up the slots, each to the producer of its slot,
\* and follow the order of registration
Ascending(calls, callbacks) ==
    /\ \A k \in 1..Len(calls) : calls[k].cb = callbacks[calls[k].i]
    /\ \A k \in 1..(Len(calls) - 1) :
         /\ calls[k].i < calls[k + 1].i
         /\ RegistrationOrder(calls[k].cb) < RegistrationOrder(calls[k + 1].cb)

\* C18: in a frame every attribute slot in the document is evaluated and
\* patched before any node slot is evaluated (a node producer is called
\* only once every attribute producer has returned), each pass goes up the
\* slots, and, sweeps keeping the order of the records, the producers of a
\* registry are called in the order in which they were registered.
C18_AttributesThenNodesInSlotOrder ==
    [][last'.op = "tick" =>
         /\ Ascending(last'.acalls, reactive_attr_callbacks)
         /\ Ascending(last'.ncalls, reactive_callbacks)
         /\ last'.ncalls # <<>> =>
              /\ {last'.acalls[k].i : k \in 1..Len(last'.acalls)}
                   = (0..(reactive_attr_count - 1)) \ DeadAttrSlots
              /\ \A k \in 1..Len(last'.acalls) :
                   /\ last'.acalls[k].out # THROWS
                   /\ el'[last'.acalls[k].cb.h].attr = Coerced(last'.acalls[k].out)]_vars

\* C18's case: a frame called the attribute producer of the first element
\* and then the two node producers of the second, the last of which threw.
C18_Witness ==
    /\ last.op = "tick"
    /\ Len(last.acalls) = 1 /\ last.acalls[1].cb = Callback("h1", 0)
    /\ last.acalls[1].wrote
    /\ Len(last.ncalls) = 2
    /\ last.ncalls[1].cb = Callback("h2", 1)
    /\ last.ncalls[2].cb = Callback("h2", 2)
    /\ last.ncalls[2].out = THROWS

\* ------------------------------------------------------------------------
\* The frame loop's schedule (checked under Spec)

\* C19: the frame callback is scheduled at most once at any time (by the
\* module when it loads, then by each frame at its end), so that a frame,
\* which runs to its end once started, never starts before the frame
\* before it has ended.
C19_AtMostOneFrameScheduled == raf_pending <= 1

\* C19's case: a frame has called producers of both registries and
\* scheduled the one frame that follows it.
C19_Witness ==
    /\ last.op = "tick" /\ ~last.threw
    /\ last.acalls # <<>> /\ last.ncalls # <<>>
    /\ raf_pending = 1

\* ------------------------------------------------------------------------
\* The sweep within its frame (checked under SpecOrder)

\* The slots a sequence of calls went to
SlotsOf(calls) == {calls[k].i : k \in 1..Len(calls)}

\* C20: the sweep runs after both passes of its frame have gone through
\* the registries as the frame found them, and nothing is called or
\* registered while it runs: in a frame that sweeps no producer threw,
\* every slot in the document was called exactly once at the slot it held
\* when the frame started, and the sweep leaves exactly those records.
C20_SweepAfterBothPasses ==
    [][last'.op = "tick" /\ last'.swept =>
         LET liveA == (0..(reactive_attr_count - 1)) \ DeadAttrSlots
             liveN == (0..(reactive_node_count - 1)) \ DeadNodeSlots
         IN /\ ~last'.threw
            /\ SlotsOf(last'.acalls) = liveA /\ Len(last'.acalls) = Cardinality(liveA)
            /\ SlotsOf(last'.ncalls) = liveN /\ Len(last'.ncalls) = Cardinality(liveN)
            /\ \A k \in 1..Len(last'.acalls) :
                 last'.acalls[k].cb = reactive_attr_callbacks[last'.acalls[k].i]
            /\ \A k \in 1..Len(last'.ncalls) :
                 last'.ncalls[k].cb = reactive_callbacks[last'.ncalls[k].i]
            /\ reactive_attr_count' = Cardinality(liveA)
            /\ reactive_node_count' = Cardinality(liveN)
            /\ {reactive_attr_callbacks'[i] : i \in 0..(reactive_attr_count' - 1)}
                 = CalledIn(last'.acalls)
            /\ {reactive_callbacks'[i] : i \in 0..(reactive_node_count' - 1)}
                 = CalledIn(last'.ncalls)]_vars

\* C20's case: the frame called the two node producers of the second
\* element at slots 1 and 2, where it found them, and then swept the
\* record of the first element, which moved them to slots 0 and 1.
C20_Witness ==
    /\ last.op = "tick" /\ last.swept
    /\ Len(last.ncalls) = 2
    /\ last.ncalls[1].i = 1 /\ last.ncalls[1].cb = Callback("h2", 1)
    /\ last.ncalls[2].i = 2 /\ last.ncalls[2].cb = Callback("h2", 2)
    /\ reactive_callbacks[0] = Callback("h2", 1)
    /\ reactive_callbacks[1] = Callback("h2", 2)

\* ------------------------------------------------------------------------
\* The records between sweeps (checked under SpecOrder)

\* C21: a step other than a frame that sweeps lowers neither active count
\* and leaves every record in use where it is, with its host or marker,
\* its name and its producer; a frame that does not sweep leaves the counts
\* as they are.
C21_OnlySweepMovesRecords ==
    [][~(last'.op = "tick" /\ last'.swept) =>
         /\ reactive_attr_count' >= reactive_attr_count
         /\ reactive_node_count' >= reactive_node_count
         /\ last'.op = "tick" =>
              /\ reactive_attr_count' = reactive_attr_count
              /\ reactive_node_count' = reactive_node_count
         /\ \A i \in 0..(reactive_attr_count - 1) : AttrRecords'[i] = AttrRecords[i]
         /\ \A i \in 0..(reactive_node_count - 1) : NodeRecords'[i] = NodeRecords[i]]_vars

\* C21's case: a frame that did not sweep called the two node producers of
\* the second element and left in slot 0 the record of the first element,
\* which is out of the document.
C21_Witness ==
    /\ last.op = "tick" /\ ~last.swept /\ ~last.threw
    /\ cleanup_counter > 0
    /\ reactive_node_count = 3
    /\ ~el["h1"].connected
    /\ NodeRecords[0] = <<Marker("h1", 1), Callback("h1", 1), TextNode("h1", 1, 0, "1")>>
    /\ Len(last.ncalls) = 2
    /\ last.ncalls[1].i = 1 /\ last.ncalls[2].i = 2

\* ------------------------------------------------------------------------
\* SpecResume: pages whose elements are taken out of the document and put
\* back while their producers go on changing.

ResumeAttrVals == {TRUE_V, NULL_V}
ResumeNodeVals == {Num("0"), Num("1")}

PlaceResume(h) ==
    Construct(h, SweepShapes, ResumeAttrVals, ResumeNodeVals, FALSE, TRUE)

\* User code appends again an element it had removed.
Reconnect(h) ==
    /\ el[h].built = "yes"
    /\ ~el[h].connected
    /\ Install([Cur EXCEPT !.el[h].connected = TRUE], "reconnect")
    /\ UNCHANGED <<raf_pending, frames>>

TickResume == Frame(ResumeAttrVals, ResumeNodeVals, FALSE) /\ UNCHANGED frames

NextResume ==
    \/ \E h \in Hosts : PlaceResume(h)
    \/ \E h \in Hosts : Detach(h)
    \/ \E h \in Hosts : Reconnect(h)
    \/ TickResume

SpecResume == Init /\ [][NextResume]_vars

\* C22: the frame that follows the return of an element to the document
\* calls the producer of every binding in the document that is still
\* registered, and leaves the attribute as the coercion of what its
\* producer returned and the node before the marker as a text node holding
\* the string form of what its producer returned.
C22_ResumedBindingInLine ==
    [][last.op = "reconnect" /\ last'.op = "tick" =>
         /\ \A i \in AttrSlots \ DeadAttrSlots :
              \E k \in 1..Len(last'.acalls) :
                  /\ last'.acalls[k].i = i
                  /\ el'[reactive_attr_elements[i].h].attr = Coerced(last'.acalls[k].out)
         /\ \A i \in NodeSlots \ DeadNodeSlots :
              \E k \in 1..Len(last'.ncalls) :
                  /\ last'.ncalls[k].i = i
                  /\ previousSibling(el', reactive_markers[i]).k = "text"
                  /\ previousSibling(el', reactive_markers[i]).s
                       = String(last'.ncalls[k].out)]_vars

\* ------------------------------------------------------------------------
\* The bindings a sweep has dropped (checked under SpecSweep)

\* The producers of element h
HostCallbacks(h) == {Callback(h, n) : n \in 0..MaxKids}

\* The producers the registries hold
Registered ==
    {reactive_attr_callbacks[i] : i \in AttrSlots}
    \cup {reactive_callbacks[i] : i \in NodeSlots}

\* Element h was built and none of its producers is registered
Unregistered(h) == el[h].built = "yes" /\ HostCallbacks(h) \cap Registered = {}

\* C23: a sweep drops the bindings of every element that is out of the
\* document when it runs, attached before or not, and a dropped binding
\* never comes back: whatever the page does afterwards, its producer is
\* not registered and not called again, and the attribute and the children
\* of its element stay as they are.
C23_SweptBindingNeverReturns ==
    [][\A h \in Hosts :
         /\ last'.op = "tick" /\ last'.swept /\ el[h].built = "yes" /\ ~el[h].connected
              => Unregistered(h)'
         /\ Unregistered(h) =>
              /\ Unregistered(h)'
              /\ \A k \in 1..Len(last'.acalls \o last'.ncalls) :
                   (last'.acalls \o last'.ncalls)[k].cb.h # h
              /\ el'[h].attr = el[h].attr
              /\ el'[h].kids = el[h].kids]_vars

\* C23's case: the first element, built and swept before it was attached,
\* is in the document, and a frame has called the producer of the second
\* element only.
C23_Witness ==
    /\ el["h1"].connected /\ Unregistered("h1")
    /\ el["h2"].connected /\ ~Unregistered("h2")
    /\ reactive_attr_count + reactive_node_count = 1
    /\ last.op = "tick" /\ ~last.swept /\ ~last.threw
    /\ Len(last.acalls \o last.ncalls) = 1
    /\ (last.acalls \o last.ncalls)[1].cb.h = "h2"

\* ------------------------------------------------------------------------
\* The registries between operations (checked under SpecOrder, whose
\* producers throw in frames only)

\* C24: between operations every slot below the active count of a registry
\* holds a whole record (an element, the name and a producer; a marker and
\* a producer), the producer being the one registered with that element or
\* marker, and every slot from the active count on holds nothing.
C24_RegistriesConsistent ==
    /\ \A i \in 0..(AttrCap - 1) :
         IF i < reactive_attr_count
         THEN /\ reactive_attr_elements[i].k = "host"
              /\ reactive_attr_names[i] = NameRef(AttrName)
              /\ reactive_attr_callbacks[i] = Callback(reactive_attr_elements[i].h, 0)
         ELSE /\ IsNil(reactive_attr_elements[i])
              /\ IsNil(reactive_attr_names[i])
              /\ IsNil(reactive_attr_callbacks[i])
    /\ \A i \in 0..(NodeCap - 1) :
         IF i < reactive_node_count
         THEN /\ reactive_markers[i].k = "marker"
              /\ reactive_callbacks[i]
                   = Callback(reactive_markers[i].h, reactive_markers[i].n)
         ELSE /\ IsNil(reactive_markers[i])
              /\ IsNil(reactive_callbacks[i])

\* C24's case: the bindings of the first element were swept, and the
\* second element has since registered its two node producers in the
\* slots the sweep had cleared.
C24_Witness ==
    /\ last.op = "construct"
    /\ Unregistered("h1")
    /\ reactive_node_count = 2
    /\ NodeRecords[0][1] = Marker("h2", 1) /\ NodeRecords[0][2] = Callback("h2", 1)
    /\ NodeRecords[1][1] = Marker("h2", 2) /\ NodeRecords[1][2] = Callback("h2", 2)

\* ------------------------------------------------------------------------
\* The slot of a producer that threw when registered (checked under SpecSweep)

\* The slots below the active counts that hold no record
EmptyAttrSlots == {i \in 0..(reactive_attr_count - 1) : IsNil(reactive_attr_elements[i])}
EmptyNodeSlots == {i \in 0..(reactive_node_count - 1) : IsNil(reactive_markers[i])}

\* C25: a producer that throws when it is registered leaves its slot
\* counted in the active count and without a record; a frame calls nothing
\* for a slot without a record, raises nothing for it and, if it goes
\* through both passes, counts it as a slot out of the document; a sweep
\* leaves no slot without a record below the active counts.
C25_ThrowingRegistrationLeavesEmptySlot ==
    [][/\ last'.op = "construct" =>
            /\ \A k \in 1..Len(last'.acalls) :
                 LET i == last'.acalls[k].i
                 IN last'.acalls[k].out = THROWS =>
                      /\ i = reactive_attr_count
                      /\ reactive_attr_count' = i + 1
                      /\ IsNil(reactive_attr_elements'[i])
                      /\ IsNil(reactive_attr_names'[i])
                      /\ IsNil(reactive_attr_callbacks'[i])
            /\ \A k \in 1..Len(last'.ncalls) :
                 LET i == last'.ncalls[k].i
                 IN last'.ncalls[k].out = THROWS =>
                      /\ i = reactive_node_count
                      /\ reactive_node_count' = i + 1
                      /\ IsNil(reactive_markers'[i])
                      /\ IsNil(reactive_callbacks'[i])
                      /\ IsNil(reactive_prev_values'[i])
       /\ last'.op = "tick" =>
            /\ \A i \in EmptyAttrSlots :
                 \A k \in 1..Len(last'.acalls) : last'.acalls[k].i # i
            /\ \A i \in EmptyNodeSlots :
                 \A k \in 1..Len(last'.ncalls) : last'.ncalls[k].i # i
            /\ last'.threw =>
                 \E k \in 1..Len(last'.acalls \o last'.ncalls) :
                     (last'.acalls \o last'.ncalls)[k].out = THROWS
            /\ ~last'.threw /\ EmptyAttrSlots \cup EmptyNodeSlots # {} =>
                 \/ last'.swept /\ cleanup_counter' = 0
                 \/ ~last'.swept /\ cleanup_counter' = cleanup_counter + 1
            /\ last'.swept => EmptyAttrSlots' = {} /\ EmptyNodeSlots' = {}]_vars

\* C25's case: the producer of the first element threw when registered,
\* the second element took the slot after it, and the frame that swept
\* called the second element's producer at slot 1 and left its record at
\* slot 0, the only slot counted.
C25_Witness ==
    /\ el["h1"].built = "lost"
    /\ last.op = "tick" /\ last.swept
    /\ Len(last.acalls \o last.ncalls) = 1
    /\ (last.acalls \o last.ncalls)[1].i = 1
    /\ (last.acalls \o last.ncalls)[1].cb.h = "h2"
    /\ reactive_attr_count + reactive_node_count = 1
    /\ EmptyAttrSlots = {} /\ EmptyNodeSlots = {}

====
